---- MODULE Spec2Model ----
(***************************************************************************)
(* Verification model of the agent-orchestrator control plane.             *)
(*                                                                         *)
(*  - MetadataService (docs/REFACTORING_PLAN.md, section 4): per-session   *)
(*    lock map and read-merge-write update.                                *)
(*  - PortManager (docs/REFACTORING_PLAN.md, section 2): claimed-port set  *)
(*    and the findNextAvailable scan.                                      *)
(*  - ProcessManager (docs/REFACTORING_PLAN.md, section 5): kill with its  *)
(*    graceful wait (waitForExit) and forced kill.                         *)
(*  - DashboardManager (docs/REFACTORING_PLAN.md, section 3) and the start *)
(*    command that drives it (section 6): port allocation, package check,  *)
(*    spawn of the dev server, and stop by port lookup.                    *)
(*  - TTLCache (packages/web/src/lib/cache.ts): entries with a time to     *)
(*    live, lazy eviction on read and the periodic sweep.                  *)
(*  - PR enrichment (docs/REFACTORING_PLAN.md, rate limit design, section  *)
(*    4): the fan-out of six sub-fetches, the merge of what succeeded, the *)
(*    rate limit mark, and the cached fetch in front of it.                *)
(*  - RateLimitError (core types, declared in the rate limit design,       *)
(*    section 1; tests in unnamed/part_002): retryAfter.                   *)
(*  - Session titles (packages/web/src/lib/format.ts): getSessionTitle,    *)
(*    looksLikePromptExcerpt, humanizeBranch.                              *)
(*  - The message route (packages/web/src/app/api/sessions/[id]/message/   *)
(*    route.ts): the POST handler and its checks.                          *)
(*                                                                         *)
(* The host is a single-threaded JavaScript event loop: an action is one   *)
(* run-to-completion segment of an async function, from one await to the   *)
(* next.                                                                   *)
(***************************************************************************)
EXTENDS Integers, FiniteSets, Sequences, TLC

VARIABLES
    locks,          \* MetadataService.locks: the session ids that have an entry
    store,          \* the persisted metadata: session id -> record
    upc,            \* per updateMetadata call: its position
    ukey,           \* per updateMetadata call: its sessionId argument
    upatch,         \* per updateMetadata call: its updates argument
    allocatedPorts, \* PortManager.allocatedPorts
    osBound,        \* ports some process has bound (what isPortAvailable probes)
    apc,            \* per findNextAvailable call: its position
    apref,          \* per findNextAvailable call: its preferred argument
    aoff,           \* per findNextAvailable call: the loop variable offset
    aret,           \* per findNextAvailable call: the returned port
    proc,           \* the OS process with the pid given to kill: running or exited
    pexit,          \* polls done when it exited during the graceful wait, else -1
    kpc,            \* ProcessManager.kill call: its position
    clock,          \* waitForExit: runs of the 100 ms interval callback so far
    timerOn,        \* waitForExit: the setTimeout timer is pending
    intervalOn,     \* waitForExit: the setInterval poll is active
    klog,           \* process.kill calls that sent a signal or threw, in order
    spc,            \* the start command: its position
    spref,          \* the start command: config.port, the dashboard's preferred port
    ssvc,           \* allocateServicePorts: the service being allocated (1..3)
    soff,           \* its findNextAvailable call: the loop variable offset
    sports,         \* allocateServicePorts: the ports allocated so far, in order
    serr,           \* the error the start command was rejected with
    webPkg,         \* what existsSync found for the web package's package.json
    children,       \* the commands DashboardManager has spawned, in order
    childState,     \* the `pnpm run dev` child: none, spawning, up or error
    uncaught,       \* an exception was thrown out of an event callback
    browserTimer,   \* openBrowser: the setTimeout timer is pending
    listeners,      \* per port of the bundle: the pids listening on it (lsof)
    stubborn,       \* the pids whose process ignores SIGTERM
    tpc,            \* DashboardManager.stop call: its position
    tidx,           \* stop: the index in allPorts of the port being looked up
    allPids,        \* stop: the local allPids
    treport,        \* what each completed stop call reported, in order
    killed,         \* the pid lists given to `kill`, in order
    now,            \* Date.now(), in ms since the cache was constructed
    cache,          \* TTLCache.cache: key -> entry, for the keys that have one
    cleanupOn,      \* TTLCache.cleanupInterval is set: the sweep timer is active
    nextSweep,      \* the time at which the sweep timer is due next
    cop,            \* the last thing that ran on the cache: a method or a timer
    ckey,           \* the key argument of the last set / get / getWithMetadata
    centry,         \* the local `entry` of the last getWithMetadata: <<>> or <<e>>
    cres,           \* what the last get / getWithMetadata returned: <<>> is null
    nset,           \* set calls made so far
    nadv,           \* clock advances so far
    epc,            \* enrichSessionPR call: its position
    eresults,       \* Promise.allSettled: per sub-fetch pending, ok or failed
    eorder,         \* the sub-fetches in the order in which they settled
    eout,           \* what enrichSessionPR produced: <<>> until it is done
    gpc,            \* per getOrFetch call: its position
    gkey,           \* per getOrFetch call: its key argument
    gret,           \* per getOrFetch call: what it returned, <<>> until then
    nfetch,         \* upstream fetches started so far
    gerr,           \* per getOrFetch call: the error it was rejected with
    quotaKeys,      \* keys whose entry is from a fetch that hit a quota limit
    rlerr,          \* the RateLimitError constructed last: <<>> or <<error>>
    rlat,           \* what Date.now() was in its constructor
    tsession,       \* the session given to getSessionTitle last: <<>> or <<s>>
    ttitle,         \* what it returned: <<>> or <<title>>
    rpc,            \* the POST handler of the message route: its position
    rbody,          \* what request.json() gave: <<>> before, then <<body>>
    rmsg,           \* the local `message`: <<>> or <<sanitized message>>
    rsvc,           \* what getServices() gave: <<>> or <<config and registry>>
    rsession,       \* what sessionManager.get(id) gave: <<>> or <<session>>
    rsent,          \* the runtime.sendMessage calls made, in order
    rresp           \* the response returned: <<>> or <<response>>

metaVars == <<locks, store, upc, ukey, upatch>>
portVars == <<allocatedPorts, osBound, apc, apref, aoff, aret>>
supVars == <<proc, pexit, kpc, clock, timerOn, intervalOn, klog>>
startVars == <<spc, spref, ssvc, soff, sports, serr, webPkg,
               children, childState, uncaught, browserTimer>>
stopVars == <<listeners, stubborn, tpc, tidx, allPids, treport, killed>>
cacheVars == <<now, cache, cleanupOn, nextSweep, cop, ckey, centry, cres,
               nset, nadv>>
enrichVars == <<epc, eresults, eorder, eout>>
fetchVars == <<gpc, gkey, gret, nfetch, gerr, quotaKeys>>
rateVars == <<rlerr, rlat>>
titleVars == <<tsession, ttitle>>
routeVars == <<rpc, rbody, rmsg, rsvc, rsession, rsent, rresp>>
webVars == <<rateVars, titleVars, routeVars>>
vars == <<locks, store, upc, ukey, upatch,
          allocatedPorts, osBound, apc, apref, aoff, aret,
          proc, pexit, kpc, clock, timerOn, intervalOn, klog,
          spc, spref, ssvc, soff, sports, serr, webPkg,
          children, childState, uncaught, browserTimer,
          listeners, stubborn, tpc, tidx, allPids, treport, killed,
          now, cache, cleanupOn, nextSweep, cop, ckey, centry, cres,
          nset, nadv,
          epc, eresults, eorder, eout,
          gpc, gkey, gret, nfetch, gerr, quotaKeys,
          rlerr, rlat, tsession, ttitle,
          rpc, rbody, rmsg, rsvc, rsession, rsent, rresp>>

-----------------------------------------------------------------------------
(* Bounds *)

NumUpdates == 3      \* updateMetadata calls issued
NumCallers == 2      \* findNextAvailable calls issued
PreferredSpan == 2   \* preferred ports range over MinPort..MinPort+PreferredSpan
MaxDeviating == 2    \* OS states: at most this many ports bound, or this many free
NumPids == 2         \* processes that may listen on the ports of a bundle
NumStops == 2        \* DashboardManager.stop calls issued
NumSets == 2         \* TTLCache.set calls issued
MaxAdvances == 4     \* clock advances between cache operations
NumFetchCalls == 2   \* getOrFetch calls issued

-----------------------------------------------------------------------------
(* MetadataService *)

Keys == {"s1", "s2"}
Fields == {"status", "branch"}
Updates == 1..NumUpdates

\* field values: 0 is what was persisted before the first call, and call u
\* writes the value u, so that every overwrite and every lost write shows
Values == 0..NumUpdates

EmptyRec == [f \in {} |-> 0]

\* Partial<SessionMetadata> of call u: any subset of the fields
Patches(u) == UNION {[D -> {u}] : D \in SUBSET Fields}

\* persisted state before the first call: s1 has a record, s2 has none
InitStore == [k \in {"s1"} |-> [f \in {"status"} |-> 0]]

\* readMetadata(dataDir, sessionId) ?? {}
Existing(k) == IF k \in DOMAIN store THEN store[k] ELSE EmptyRec

\* a blind overwrite of the whole record by the patch
MergeOverwrite(existing, updates) == updates

\* { ...existing, ...updates }
Merge(existing, updates) ==
    [f \in (DOMAIN existing) \cup (DOMAIN updates) |->
        IF f \in DOMAIN updates THEN updates[f] ELSE existing[f]]

\* writeMetadata(dataDir, sessionId, merged)
WriteMetadata(k, rec) ==
    [x \in (DOMAIN store) \cup {k} |-> IF x = k THEN rec ELSE store[x]]

\* a has() that never sees the entry
LockHeldNever(k) == FALSE

\* one lock for all session ids
LockHeldAny(k) == locks # {}

\* this.locks.has(sessionId)
LockHeld(k) == k \in locks

\* releaseLock: the entry is deleted; the promise stored under it is never
\* resolved (its resolve function was kept only in a local of acquireLock)
ReleaseLock(k) == locks \ {k}

MetaInit ==
    /\ locks = {}
    /\ store = InitStore
    /\ upc = [u \in Updates |-> "idle"]
    /\ ukey = [u \in Updates |-> "s1"]
    /\ upatch = [u \in Updates |-> EmptyRec]

\* updateMetadata is called; acquireLock runs up to its first await.  With
\* no entry for the key the loop is skipped, the entry is set and the caller
\* suspends on the settled promise of acquireLock; with an entry the call
\* suspends on the stored promise.  Calls are issued in the order 1..n.
UpdateCall(u, k, p) ==
    /\ upc[u] = "idle"
    /\ \A j \in Updates : j < u => upc[j] # "idle"
    /\ ukey' = [ukey EXCEPT ![u] = k]
    /\ upatch' = [upatch EXCEPT ![u] = p]
    /\ IF LockHeld(k)
         THEN /\ upc' = [upc EXCEPT ![u] = "waiting"]
              /\ locks' = locks
         ELSE /\ upc' = [upc EXCEPT ![u] = "acquired"]
              /\ locks' = locks \cup {k}
    /\ UNCHANGED <<store, portVars, supVars, startVars, stopVars, cacheVars, enrichVars, fetchVars, webVars>>

\* the continuation after `await this.acquireLock(sessionId)`: read, merge,
\* write, and release in the finally block, in one synchronous segment
UpdateCommit(u) ==
    /\ upc[u] = "acquired"
    /\ store' = WriteMetadata(ukey[u], Merge(Existing(ukey[u]), upatch[u]))
    /\ locks' = ReleaseLock(ukey[u])
    /\ upc' = [upc EXCEPT ![u] = "done"]
    /\ UNCHANGED <<ukey, upatch, portVars, supVars, startVars, stopVars, cacheVars, enrichVars, fetchVars, webVars>>

\* readMetadata throws: nothing is written, finally releases, the call rejects
UpdateReadFails(u) ==
    /\ upc[u] = "acquired"
    /\ locks' = ReleaseLock(ukey[u])
    /\ upc' = [upc EXCEPT ![u] = "readFailed"]
    /\ UNCHANGED <<store, ukey, upatch, portVars, supVars, startVars, stopVars, cacheVars, enrichVars, fetchVars, webVars>>

\* writeMetadata throws: nothing is written, finally releases, the call rejects
UpdateWriteFails(u) ==
    /\ upc[u] = "acquired"
    /\ locks' = ReleaseLock(ukey[u])
    /\ upc' = [upc EXCEPT ![u] = "writeFailed"]
    /\ UNCHANGED <<store, ukey, upatch, portVars, supVars, startVars, stopVars, cacheVars, enrichVars, fetchVars, webVars>>

\* one step of call u
UpdateStep(u) ==
    \/ \E k \in Keys, p \in Patches(u) : UpdateCall(u, k, p)
    \/ UpdateCommit(u)
    \/ UpdateReadFails(u)
    \/ UpdateWriteFails(u)

MetaNext == \E u \in Updates : UpdateStep(u)

-----------------------------------------------------------------------------
(* Claims about MetadataService, checked under MetaSpec *)

Failed(u) == upc[u] \in {"readFailed", "writeFailed"}
Issued(u) == upc[u] # "idle"

\* the calls issued on key k whose patch names field f
Writers(k, f) == {u \in Updates : Issued(u) /\ ukey[u] = k /\ f \in DOMAIN upatch[u]}

\* the fields the record of k has when every patch issued on k is merged, in
\* the order of issue, over the record persisted at the start
ExpectedFields(k) ==
    {f \in Fields : Writers(k, f) # {} \/ (k \in DOMAIN InitStore /\ f \in DOMAIN InitStore[k])}

\* and the value of such a field: that of the last patch naming it
ExpectedValue(k, f) ==
    IF Writers(k, f) # {}
      THEN LET last == CHOOSE u \in Writers(k, f) : \A v \in Writers(k, f) : v <= u
           IN  upatch[last][f]
      ELSE InitStore[k][f]

\* C1: once every call has been issued and nothing can run any more, the
\* persisted record of each key is the initial record with the patches issued
\* on that key merged over it in the order of issue (no read or write failed)
C1_FinalIsFold ==
    ((\A u \in Updates : Issued(u) /\ ~Failed(u)) /\ ~ENABLED MetaNext)
        => \A k \in Keys :
              /\ DOMAIN Existing(k) = ExpectedFields(k)
              /\ \A f \in ExpectedFields(k) : Existing(k)[f] = ExpectedValue(k, f)

\* C2: no call is left waiting on a key whose lock has been released: a
\* waiter is either behind a held lock or able to run
C2_NoStuckWaiter ==
    \A u \in Updates :
        upc[u] = "waiting" => (LockHeld(ukey[u]) \/ ENABLED UpdateStep(u))

\* the calls that hold the lock of k: past acquireLock, before the read
Holders(k) == {u \in Updates : upc[u] = "acquired" /\ ukey[u] = k}

\* C3: at most one call per key is between acquiring the lock and its
\* read-merge-write, and the key has a lock entry exactly while there is one
C3_OneInFlight ==
    \A k \in Keys :
        /\ Cardinality(Holders(k)) <= 1
        /\ k \in locks <=> Holders(k) # {}

\* a second call on a key arrived while the first held the lock
C3_Witness ==
    \E u, v \in Updates :
        /\ u < v
        /\ ukey[u] = ukey[v]
        /\ upc[u] = "acquired"
        /\ upc[v] = "waiting"

\* C4: first come, first served: a call that has read and written its key
\* was not overtaken by it, every call issued earlier on the key has finished
C4_FirstComeFirstServed ==
    \A a, b \in Updates :
        (a < b /\ ukey[a] = ukey[b] /\ upc[b] = "done")
            => (upc[a] = "done" \/ Failed(a))

\* C5: a call is made to wait only by a lock on its own key, and a call that
\* finishes changes no record but that of its own key
C5_KeysIndependent ==
    [][\A u \in Updates :
          /\ (upc[u] = "idle" /\ upc'[u] = "waiting") => ukey'[u] \in locks
          /\ (upc[u] = "acquired" /\ upc'[u] # "acquired")
                => \A k \in Keys \ {ukey[u]} :
                      /\ (k \in DOMAIN store') = (k \in DOMAIN store)
                      /\ k \in DOMAIN store => store'[k] = store[k]]_vars

\* two calls hold the locks of two different keys at once, and one of them
\* arrived while the other key was already locked
C5_Witness ==
    \E u, v \in Updates :
        /\ u < v
        /\ ukey[u] # ukey[v]
        /\ upc[u] = "acquired"
        /\ upc[v] = "acquired"

\* C6: a committed update is a shallow merge: the fields of the patch have
\* the patch's values, the other fields of the previous record keep theirs,
\* and the record has no further field (an absent record gets the patch's)
C6_ShallowMerge ==
    [][\A u \in Updates :
          (upc[u] = "acquired" /\ upc'[u] = "done")
              => LET k == ukey[u]
                     p == upatch[u]
                     old == IF k \in DOMAIN store THEN DOMAIN store[k] ELSE {}
                 IN  /\ k \in DOMAIN store'
                     /\ DOMAIN store'[k] = old \cup DOMAIN p
                     /\ \A f \in DOMAIN p : store'[k][f] = p[f]
                     /\ \A f \in old \ DOMAIN p : store'[k][f] = store[k][f]]_vars

\* an absent record was created, and an existing record kept a field of the
\* initial record next to a field written by a patch
C6_Witness ==
    /\ "s2" \in DOMAIN store
    /\ DOMAIN store["s1"] = Fields
    /\ store["s1"]["status"] = 0
    /\ store["s1"]["branch"] # 0

\* C7: a failed read or write is reported to its own caller only, and the
\* other calls on the key still run: when nothing can run any more, every
\* other call issued on the key of a failed call has finished
C7_FailureIsolated ==
    (~ENABLED MetaNext)
        => \A h, u \in Updates :
              (Failed(h) /\ u # h /\ Issued(u) /\ ukey[u] = ukey[h])
                  => (upc[u] = "done" \/ Failed(u))

-----------------------------------------------------------------------------
(* PortManager *)

maxAttempts == 10
TerminalWsPreferred == 3001

Callers == 1..NumCallers
MinPort == TerminalWsPreferred
Preferred == MinPort..(MinPort + PreferredSpan)
Ports == MinPort..(MinPort + PreferredSpan + maxAttempts)

\* the OS states considered: all ports free or all bound, up to MaxDeviating
\* exceptions.  The OS state does not change while the registry is used.
OsConfigs ==
    {S \in SUBSET Ports :
        \/ Cardinality(S) <= MaxDeviating
        \/ Cardinality(Ports \ S) <= MaxDeviating}

\* a probe that reports every port as free
IsPortAvailableAlways(port) == TRUE

\* isPortAvailable(port)
IsPortAvailable(port) == port \notin osBound

Min(S) == CHOOSE x \in S : \A y \in S : x <= y

\* a scan that does not skip the ports this instance has claimed
NextCandidateNoSkip(preferred, from, claimed) ==
    IF from < maxAttempts THEN from ELSE maxAttempts

\* a scan whose budget is one attempt short
NextCandidateShort(preferred, from, claimed) ==
    LET C == {o \in from..(maxAttempts - 2) : (preferred + o) \notin claimed}
    IN  IF C = {} THEN maxAttempts ELSE Min(C)

\* the for loop of findNextAvailable run from offset `from` up to its next
\* await: claimed candidates are skipped with `continue`; the result is the
\* offset of the candidate to probe, or maxAttempts when the loop runs out
NextCandidate(preferred, from, claimed) ==
    LET C == {o \in from..(maxAttempts - 1) : (preferred + o) \notin claimed}
    IN  IF C = {} THEN maxAttempts ELSE Min(C)

\* a new PortManager(), on a host whose bound ports are `os`
PortStart(os) ==
    /\ allocatedPorts = {}
    /\ osBound = os
    /\ apc = [a \in Callers |-> "idle"]
    /\ apref = [a \in Callers |-> MinPort]
    /\ aoff = [a \in Callers |-> 0]
    /\ aret = [a \in Callers |-> 0]

\* findNextAvailable(preferred) is called and runs up to its first await
\* (the probe of the first unclaimed candidate) or throws at once
AllocCall(a, preferred) ==
    /\ apc[a] = "idle"
    /\ \A b \in Callers : b < a => apc[b] # "idle"
    /\ apref' = [apref EXCEPT ![a] = preferred]
    /\ LET o == NextCandidate(preferred, 0, allocatedPorts)
       IN  /\ aoff' = [aoff EXCEPT ![a] = o]
           /\ apc' = [apc EXCEPT ![a] =
                        IF o = maxAttempts THEN "failed" ELSE "probing"]
    /\ UNCHANGED <<allocatedPorts, osBound, aret, metaVars, supVars, startVars, stopVars, cacheVars, enrichVars, fetchVars, webVars>>

\* the continuation after `await isPortAvailable(port)`: on true the port is
\* added and returned; on false the loop goes on to its next await or throws
ProbeReturn(a) ==
    /\ apc[a] = "probing"
    /\ LET port == apref[a] + aoff[a]
       IN  IF IsPortAvailable(port)
             THEN /\ allocatedPorts' = allocatedPorts \cup {port}
                  /\ aret' = [aret EXCEPT ![a] = port]
                  /\ apc' = [apc EXCEPT ![a] = "returned"]
                  /\ UNCHANGED aoff
             ELSE LET o == NextCandidate(apref[a], aoff[a] + 1, allocatedPorts)
                  IN  /\ aoff' = [aoff EXCEPT ![a] = o]
                      /\ apc' = [apc EXCEPT ![a] =
                                   IF o = maxAttempts THEN "failed" ELSE "probing"]
                      /\ UNCHANGED <<allocatedPorts, aret>>
    /\ UNCHANGED <<osBound, apref, metaVars, supVars, startVars, stopVars, cacheVars, enrichVars, fetchVars, webVars>>

\* release(port), a no-op on an unclaimed port; a call that was returned
\* this port no longer owns it
Release(port) ==
    /\ allocatedPorts' = allocatedPorts \ {port}
    /\ apc' = [a \in Callers |->
                 IF apc[a] = "returned" /\ aret[a] = port
                   THEN "released" ELSE apc[a]]
    /\ UNCHANGED <<osBound, apref, aoff, aret, metaVars, supVars, startVars, stopVars, cacheVars, enrichVars, fetchVars, webVars>>

\* releaseAll()
ReleaseAll ==
    /\ allocatedPorts' = {}
    /\ apc' = [a \in Callers |->
                 IF apc[a] = "returned" THEN "released" ELSE apc[a]]
    /\ UNCHANGED <<osBound, apref, aoff, aret, metaVars, supVars, startVars, stopVars, cacheVars, enrichVars, fetchVars, webVars>>

\* no findNextAvailable call is suspended in a probe
NoCallInFlight == \A a \in Callers : apc[a] # "probing"

\* any interleaving of the registry's operations
PortNext ==
    \/ \E a \in Callers, p \in Preferred : AllocCall(a, p)
    \/ \E a \in Callers : ProbeReturn(a)
    \/ \E p \in Ports : Release(p)
    \/ ReleaseAll

\* every call is awaited before the next operation on the registry starts
PortSeqNext ==
    \/ \E a \in Callers, p \in Preferred : NoCallInFlight /\ AllocCall(a, p)
    \/ \E a \in Callers : ProbeReturn(a)
    \/ \E p \in Ports : NoCallInFlight /\ Release(p)
    \/ NoCallInFlight /\ ReleaseAll

-----------------------------------------------------------------------------
(* Claims about PortManager *)

\* C8 (PortSpec): no two calls own the same port: two calls that were both
\* returned a port, neither released since, were returned different ports
C8_MutuallyExclusive ==
    \A a, b \in Callers :
        (a # b /\ apc[a] = "returned" /\ apc[b] = "returned")
            => aret[a] # aret[b]

\* call a returns or throws in this step
Completes(a) == apc[a] \in {"idle", "probing"} /\ apc'[a] \in {"returned", "failed"}

\* preferred..preferred+k are all bound at OS level
BoundRun(preferred, k) == \A x \in 0..k : (preferred + x) \in osBound

\* a call with P..P+k OS-bound and P+k+1 OS-free and unclaimed returns P+k+1
\* and marks it claimed
ReturnsAfterRun(a, k) ==
    LET next == apref'[a] + k + 1
    IN  (/\ Completes(a)
         /\ BoundRun(apref'[a], k)
         /\ next \notin osBound
         /\ next \notin allocatedPorts)
            => /\ apc'[a] = "returned"
               /\ aret'[a] = next
               /\ next \in allocatedPorts'

\* C9 as stated (PortSeqSpec): for every k in 0..9
C9_EveryKBelowBudget ==
    [][\A a \in Callers, k \in 0..(maxAttempts - 1) : ReturnsAfterRun(a, k)]_vars

\* C9 as amended (PortSeqSpec): for every k in 0..8; with k = 9 the bound
\* candidates P..P+9 use up the budget, the call throws and claims nothing
C9_EveryKWithinWindow ==
    [][\A a \in Callers :
          /\ \A k \in 0..(maxAttempts - 2) : ReturnsAfterRun(a, k)
          /\ (Completes(a) /\ BoundRun(apref'[a], maxAttempts - 1))
                => (apc'[a] = "failed" /\ allocatedPorts' = allocatedPorts)]_vars

\* a call was returned the last candidate of its window, P+9, after P..P+8
\* were found bound
C9_Witness ==
    \E a \in Callers :
        /\ apc[a] = "returned"
        /\ aret[a] = apref[a] + maxAttempts - 1
        /\ BoundRun(apref[a], maxAttempts - 2)

\* the candidates of a call that are neither claimed by this instance nor bound
Good(preferred) ==
    {c \in preferred..(preferred + maxAttempts - 1) :
        c \notin allocatedPorts /\ c \notin osBound}

\* C10 (PortSeqSpec): a call returns the smallest candidate of its window
\* that is unclaimed and OS-available and records it as claimed; it throws,
\* claiming nothing, exactly when the window has no such candidate
C10_SmallestGoodCandidate ==
    [][\A a \in Callers :
          Completes(a)
              => LET G == Good(apref'[a])
                 IN  IF G = {}
                       THEN /\ apc'[a] = "failed"
                            /\ allocatedPorts' = allocatedPorts
                       ELSE /\ apc'[a] = "returned"
                            /\ aret'[a] = Min(G)
                            /\ allocatedPorts' = allocatedPorts \cup {Min(G)}]_vars

\* a call was returned a port after skipping a candidate claimed by this
\* instance and probing one that was bound
C10_Witness ==
    \E a \in Callers :
        /\ apc[a] = "returned"
        /\ \E c1, c2 \in apref[a]..(aret[a] - 1) :
              /\ c1 \in allocatedPorts
              /\ c2 \in osBound

\* C11 (PortSeqSpec): a port returned by a call stays claimed until it is
\* released, and a call is never returned a port that an earlier call was
\* returned and that has not been released since
C11_NotReturnedAgainUntilReleased ==
    [][/\ \A b \in Callers : apc[b] = "returned" => aret[b] \in allocatedPorts
       /\ \A a \in Callers :
             (Completes(a) /\ apc'[a] = "returned")
                 => /\ aret'[a] \notin allocatedPorts
                    /\ \A b \in Callers \ {a} :
                          apc[b] = "returned" => aret[b] # aret'[a]]_vars

\* a port that was returned, then released, has been returned again
C11_Witness ==
    \E a, b \in Callers :
        /\ a < b
        /\ apc[a] = "released"
        /\ apc[b] = "returned"
        /\ aret[a] = aret[b]

\* call a takes a step of its own: it is called, or resumes from a probe
OwnStep(a) ==
    /\ apc[a] \in {"idle", "probing"}
    /\ apc'[a] # apc[a] \/ aoff'[a] # aoff[a]

\* C12 (PortSeqSpec, and PortSpec): a call whose 10 candidates P..P+9 are all OS-bound never
\* adds a port to the claimed set, moves on at every probe and ends by
\* throwing
C12_ExhaustedFailsClean ==
    [][\A a \in Callers :
          (OwnStep(a) /\ BoundRun(apref'[a], maxAttempts - 1))
              => /\ allocatedPorts' = allocatedPorts
                 /\ apc'[a] \in {"probing", "failed"}
                 /\ (apc[a] = "probing" /\ apc'[a] = "probing")
                       => aoff'[a] > aoff[a]]_vars

\* a call has thrown on 10 bound candidates while another port was claimed
C12_Witness ==
    \E a \in Callers :
        /\ apc[a] = "failed"
        /\ BoundRun(apref[a], maxAttempts - 1)
        /\ allocatedPorts # {}

-----------------------------------------------------------------------------
(* ProcessManager: kill and waitForExit *)

GraceTimeoutMs == 5000
PollIntervalMs == 100

\* a graceful wait a tenth as long
GraceTicksTenth == GraceTimeoutMs \div (10 * PollIntervalMs)

\* the interval periods that fit in the graceful wait.  Run k of the interval
\* callback is due k periods after waitForExit started and the timer after
\* GraceTicks periods: the timer fires after run GraceTicks - 1, and before
\* or after run GraceTicks, which is due at the same time.
GraceTicks == GraceTimeoutMs \div PollIntervalMs

\* the graceful timeouts a caller may want; kill has no parameter for one
RequestedTimeouts == {100, 5000}

\* process.kill(pid, sig) for a signal other than 0: the entry for klog
Sent(sig) == IF proc = "running" THEN <<sig, "ok">> ELSE <<sig, "ESRCH">>

\* an inner try without its catch: a throwing SIGKILL rejects kill
AfterForceKillNoCatch(threw) == IF threw THEN "raised" ELSE "returned"

\* try { process.kill(pid, "SIGKILL") } catch { /* Already dead */ }
AfterForceKill(threw) == "returned"

\* the catch block of kill: SIGKILL is sent whatever made the try block fail
ForceKill ==
    /\ klog' = Append(klog, Sent("SIGKILL"))
    /\ proc' = "exited"
    /\ kpc' = AfterForceKill(proc = "exited")

SupInit ==
    /\ proc \in {"running", "exited"}
    /\ pexit = -1
    /\ kpc = "idle"
    /\ clock = 0
    /\ timerOn = FALSE
    /\ intervalOn = FALSE
    /\ klog = <<>>

\* kill(pid) is called with the default signal.  On a live process SIGTERM
\* is sent, waitForExit arms its timer and its interval, and kill suspends;
\* on a dead one process.kill throws and the catch block runs at once.
KillCall ==
    /\ kpc = "idle"
    /\ IF proc = "running"
         THEN /\ klog' = Append(klog, Sent("SIGTERM"))
              /\ kpc' = "waiting"
              /\ timerOn' = TRUE
              /\ intervalOn' = TRUE
              /\ UNCHANGED proc
         ELSE /\ klog' = Append(Append(klog, Sent("SIGTERM")), Sent("SIGKILL"))
              /\ kpc' = AfterForceKill(TRUE)
              /\ UNCHANGED <<proc, timerOn, intervalOn>>
    /\ UNCHANGED <<pexit, clock, metaVars, portVars, startVars, stopVars, cacheVars, enrichVars, fetchVars, webVars>>

\* the interval callback runs: process.kill(pid, 0).  It throws when the
\* process is gone: both timers are cleared and the promise resolves, which
\* lets a suspended kill return.  While the timer is pending the interval has
\* run at most GraceTicks times.
PollTick ==
    /\ intervalOn
    /\ timerOn => clock < GraceTicks
    /\ clock' = IF clock < GraceTicks THEN clock + 1 ELSE clock
    /\ IF proc = "exited"
         THEN /\ klog' = Append(klog, <<"0", "ESRCH">>)
              /\ intervalOn' = FALSE
              /\ timerOn' = FALSE
              /\ kpc' = IF kpc = "waiting" THEN "returned" ELSE kpc
         ELSE UNCHANGED <<klog, intervalOn, timerOn, kpc>>
    /\ UNCHANGED <<proc, pexit, metaVars, portVars, startVars, stopVars, cacheVars, enrichVars, fetchVars, webVars>>

\* the timer callback runs: the promise rejects and the catch block of kill
\* sends SIGKILL.  The interval is not cleared.
TimerFire ==
    /\ timerOn
    /\ clock >= GraceTicks - 1
    /\ timerOn' = FALSE
    /\ ForceKill
    /\ UNCHANGED <<pexit, clock, intervalOn, metaVars, portVars, startVars, stopVars, cacheVars, enrichVars, fetchVars, webVars>>

\* the process exits by itself, at any time
ProcExit ==
    /\ proc = "running"
    /\ proc' = "exited"
    /\ pexit' = IF kpc = "waiting" /\ timerOn THEN clock ELSE -1
    /\ UNCHANGED <<kpc, clock, timerOn, intervalOn, klog, metaVars, portVars, startVars, stopVars, cacheVars, enrichVars, fetchVars, webVars>>

SupNext ==
    \/ KillCall
    \/ PollTick
    \/ TimerFire
    \/ ProcExit

-----------------------------------------------------------------------------
(* Claims about ProcessManager.kill *)

\* the entries of klog for signal sig
SentCount(sig) == Cardinality({i \in 1..Len(klog) : klog[i][1] = sig})

\* C13 as stated (SupSpec): kill on a process that exited by itself during
\* the graceful wait returns without a SIGKILL
C13_ExitInWindowNoForce ==
    pexit >= 0 => SentCount("SIGKILL") = 0

\* C13 as amended (SupSpec): when the process exits at least two interval
\* periods before the graceful wait ends, so that a poll sees it gone before
\* the timer fires, no SIGKILL is sent and kill returns at that poll
C13_ExitBeforeLastPollNoForce ==
    (pexit >= 0 /\ (pexit + 2) * PollIntervalMs <= GraceTimeoutMs)
        => /\ SentCount("SIGKILL") = 0
           /\ clock > pexit => (kpc = "returned" /\ ~timerOn /\ ~intervalOn)

\* the process exited just before the last poll that precedes the timer,
\* and kill returned from that poll
C13_Witness ==
    /\ kpc = "returned"
    /\ (pexit + 2) * PollIntervalMs = GraceTimeoutMs
    /\ klog = <<<<"SIGTERM", "ok">>, <<"0", "ESRCH">>>>

\* the timer of waitForExit fires in this step and kill sends SIGKILL
TimeoutKill ==
    /\ kpc = "waiting"
    /\ timerOn /\ ~timerOn'
    /\ Len(klog') = Len(klog) + 1
    /\ klog'[Len(klog')][1] = "SIGKILL"

\* the timer fired t ms after waitForExit started, as far as the polls tell
ElapsedIs(t) == clock * PollIntervalMs <= t /\ t <= (clock + 1) * PollIntervalMs

C15_NoSignalAfterObservedExit ==
    \A i, j \in 1..Len(klog) :
        (i < j /\ klog[i][2] = "ESRCH") => klog[j][1] = "0"

\* C16 (SupFairSpec): kill never raises, sends at most one SIGTERM and at
\* most one SIGKILL, and a suspended kill returns
C16_KillCompletesOnce ==
    /\ [](/\ kpc \in {"idle", "waiting", "returned"}
          /\ SentCount("SIGTERM") <= 1
          /\ SentCount("SIGKILL") <= 1
          /\ kpc = "waiting" => (timerOn /\ intervalOn))
    /\ (kpc = "waiting") ~> (kpc = "returned")

\* kill returned on a process that was never alive
C16_Witness ==
    /\ kpc = "returned"
    /\ klog = <<<<"SIGTERM", "ESRCH">>, <<"SIGKILL", "ESRCH">>>>

\* C35 (SupSpec): once kill has returned, neither the timer nor the 100 ms
\* interval of its waitForExit is active, so that no signal 0 is sent to the
\* pid any more
C35_KillLeavesNoTimer ==
    kpc = "returned" => (~timerOn /\ ~intervalOn)

-----------------------------------------------------------------------------
(* The start command and DashboardManager.start *)

DirectTerminalWsPreferred == 3003

Services == 1..3    \* dashboard, terminalWs, directTerminalWs

\* the argument of the findNextAvailable call for service i, where p is
\* the preferred dashboard port
SvcPreferred(i, p) ==
    CASE i = 1 -> p
      [] i = 2 -> TerminalWsPreferred
      [] i = 3 -> DirectTerminalWsPreferred

\* a package check that always passes
PackageMissingNever(exists) == FALSE

\* !existsSync(resolve(webDir, "package.json"))
PackageMissing(exists) == ~exists

StartInit ==
    /\ spc = "idle"
    /\ spref = MinPort
    /\ ssvc = 1
    /\ soff = 0
    /\ sports = <<>>
    /\ serr = "none"
    /\ webPkg = "unknown"
    /\ children = <<>>
    /\ childState = "none"
    /\ uncaught = FALSE
    /\ browserTimer = FALSE

\* the body of DashboardManager.start, which has no await: it throws when the
\* package is missing; otherwise it spawns `pnpm run dev`, registers the
\* error listener, arms the browser timer (openBrowser: true) and returns
\* the child
DashboardStart(exists) ==
    /\ webPkg' = IF exists THEN "present" ELSE "missing"
    /\ IF PackageMissing(exists)
         THEN /\ spc' = "failed"
              /\ serr' = "noPackage"
              /\ UNCHANGED <<children, childState, browserTimer>>
         ELSE /\ spc' = "started"
              /\ children' = Append(children, "pnpm")
              /\ childState' = "spawning"
              /\ browserTimer' = TRUE
              /\ UNCHANGED serr

\* the action of the start command is run with config.port = p: a new
\* PortManager, allocateServicePorts(p), and its first findNextAvailable call
\* up to the first probe
StartCommand(p) ==
    /\ spc = "idle"
    /\ spref' = p
    /\ ssvc' = 1
    /\ LET o == NextCandidate(SvcPreferred(1, p), 0, allocatedPorts)
       IN  /\ soff' = o
           /\ spc' = IF o = maxAttempts THEN "failed" ELSE "probing"
           /\ serr' = IF o = maxAttempts THEN "noPort" ELSE serr
    /\ UNCHANGED <<sports, webPkg, children, childState, uncaught,
                   browserTimer, metaVars, portVars, supVars, stopVars, cacheVars, enrichVars, fetchVars, webVars>>

\* the continuation after `await isPortAvailable(port)` in the start command.
\* On false the scan goes on or throws, which rejects the command.  On true
\* the port is claimed and the next service's scan starts; after the third
\* service allocateServicePorts returns and DashboardManager.start runs.
StartProbeReturn ==
    /\ spc = "probing"
    /\ LET pref == SvcPreferred(ssvc, spref)
           port == pref + soff
       IN  IF IsPortAvailable(port)
             THEN /\ allocatedPorts' = allocatedPorts \cup {port}
                  /\ sports' = Append(sports, port)
                  /\ IF ssvc < 3
                       THEN LET o == NextCandidate(SvcPreferred(ssvc + 1, spref), 0,
                                                   allocatedPorts \cup {port})
                            IN  /\ ssvc' = ssvc + 1
                                /\ soff' = o
                                /\ spc' = IF o = maxAttempts
                                            THEN "failed" ELSE "probing"
                                /\ serr' = IF o = maxAttempts
                                             THEN "noPort" ELSE serr
                                /\ UNCHANGED <<webPkg, children, childState,
                                               browserTimer>>
                       ELSE /\ \E exists \in BOOLEAN : DashboardStart(exists)
                            /\ UNCHANGED <<ssvc, soff>>
             ELSE LET o == NextCandidate(pref, soff + 1, allocatedPorts)
                  IN  /\ soff' = o
                      /\ spc' = IF o = maxAttempts THEN "failed" ELSE "probing"
                      /\ serr' = IF o = maxAttempts THEN "noPort" ELSE serr
                      /\ UNCHANGED <<allocatedPorts, sports, ssvc, webPkg,
                                     children, childState, browserTimer>>
    /\ UNCHANGED <<spref, uncaught, osBound, apc, apref, aoff, aret,
                   metaVars, supVars, stopVars, cacheVars, enrichVars, fetchVars, webVars>>

\* the child process was created: no error event
ChildSpawned ==
    /\ childState = "spawning"
    /\ childState' = "up"
    /\ UNCHANGED <<spc, spref, ssvc, soff, sports, serr, webPkg, children,
                   uncaught, browserTimer,
                   metaVars, portVars, supVars, stopVars, cacheVars, enrichVars, fetchVars, webVars>>

\* the child could not be created (pnpm not found): its error event runs the
\* listener registered by start, which throws
ChildErrorEvent ==
    /\ childState = "spawning"
    /\ childState' = "error"
    /\ uncaught' = TRUE
    /\ UNCHANGED <<spc, spref, ssvc, soff, sports, serr, webPkg, children,
                   browserTimer,
                   metaVars, portVars, supVars, stopVars, cacheVars, enrichVars, fetchVars, webVars>>

\* the timer callback of openBrowser runs, unless the host process died of
\* the uncaught exception: it spawns `open`
BrowserTimerFire ==
    /\ browserTimer
    /\ ~uncaught
    /\ browserTimer' = FALSE
    /\ children' = Append(children, "open")
    /\ UNCHANGED <<spc, spref, ssvc, soff, sports, serr, webPkg, childState,
                   uncaught,
                   metaVars, portVars, supVars, stopVars, cacheVars, enrichVars, fetchVars, webVars>>

StartNext ==
    \/ \E p \in Preferred : StartCommand(p)
    \/ StartProbeReturn
    \/ ChildSpawned
    \/ ChildErrorEvent
    \/ BrowserTimerFire

-----------------------------------------------------------------------------
(* DashboardManager.stop *)

Pids == 1..NumPids

\* the elements of a set of pids as `lsof -t` prints them, in ascending order
RECURSIVE PidLines(_)
PidLines(S) ==
    IF S = {} THEN <<>> ELSE <<Min(S)>> \o PidLines(S \ {Min(S)})

\* the elements of a sequence
Range(seq) == {seq[i] : i \in 1..Len(seq)}

RECURSIVE Unique(_)

\* a list passed on as it is
UniqueKeepAll(seq) == seq

\* [...new Set(allPids)]: each pid once, in the order of first occurrence
Unique(seq) ==
    IF seq = <<>> THEN <<>>
    ELSE LET front == Unique(SubSeq(seq, 1, Len(seq) - 1))
             last == seq[Len(seq)]
         IN  IF last \in Range(front) THEN front ELSE Append(front, last)

\* a stop that goes on to `kill` whatever it found
NothingRunningNever(pids) == FALSE

\* allPids.length === 0
NothingRunning(pids) == Len(pids) = 0

\* the pids that listen on some port of the bundle
Listening == UNION {listeners[i] : i \in Services}

\* a bundle of three ports, each with any set of listeners
StopInit ==
    /\ listeners \in [Services -> SUBSET Pids]
    /\ stubborn \in SUBSET Pids
    /\ tpc = "idle"
    /\ tidx = 1
    /\ allPids = <<>>
    /\ treport = <<>>
    /\ killed = <<>>

\* stop(ports) is called and runs up to its first await, the lsof of the
\* first port
StopCall ==
    /\ tpc = "idle"
    /\ Len(treport) < NumStops
    /\ tpc' = "lsof"
    /\ tidx' = 1
    /\ allPids' = <<>>
    /\ UNCHANGED <<listeners, stubborn, treport, killed,
                   metaVars, portVars, supVars, startVars, cacheVars, enrichVars, fetchVars, webVars>>

\* the continuation after `await exec("lsof", ...)`: the pids printed are
\* pushed (lsof fails when there is none, which the catch ignores) and the
\* loop goes on to the next port; after the last port stop returns at once
\* when it found no pid, else it runs `kill` with the deduplicated pids
LsofReturn ==
    /\ tpc = "lsof"
    /\ LET all == allPids \o PidLines(listeners[tidx])
       IN  /\ allPids' = all
           /\ IF tidx < 3
                THEN /\ tidx' = tidx + 1
                     /\ UNCHANGED <<tpc, treport, killed>>
                ELSE /\ UNCHANGED tidx
                     /\ IF NothingRunning(all)
                          THEN /\ tpc' = "idle"
                               /\ treport' = Append(treport, "notRunning")
                               /\ UNCHANGED killed
                          ELSE /\ tpc' = "killing"
                               /\ killed' = Append(killed, Unique(all))
                               /\ UNCHANGED treport
    /\ UNCHANGED <<listeners, stubborn, metaVars, portVars, supVars, startVars, cacheVars, enrichVars, fetchVars, webVars>>

\* the continuation after `await exec("kill", uniquePids)`: kill has sent
\* SIGTERM to each pid, which ends the processes that do not ignore it; kill
\* fails when one of the pids did not exist, which the catch reports
KillReturn ==
    /\ tpc = "killing"
    /\ LET pids == Range(killed[Len(killed)])
       IN  /\ listeners' = [i \in Services |-> listeners[i] \ (pids \ stubborn)]
           /\ treport' = Append(treport,
                  IF pids \subseteq Listening THEN "stopped" ELSE "couldNotStop")
    /\ tpc' = "idle"
    /\ UNCHANGED <<stubborn, tidx, allPids, killed,
                   metaVars, portVars, supVars, startVars, cacheVars, enrichVars, fetchVars, webVars>>

\* a listening process exits by itself
ListenerExit(pid) ==
    /\ pid \in Listening
    /\ listeners' = [i \in Services |-> listeners[i] \ {pid}]
    /\ UNCHANGED <<stubborn, tpc, tidx, allPids, treport, killed,
                   metaVars, portVars, supVars, startVars, cacheVars, enrichVars, fetchVars, webVars>>

StopNext ==
    \/ StopCall
    \/ LsofReturn
    \/ KillReturn
    \/ \E pid \in Pids : ListenerExit(pid)

\* the pid of the `pnpm run dev` child
ChildPid == Min(Pids)

\* the child brings up its three servers on the ports injected by start
\* (PORT, TERMINAL_WS_PORT, DIRECT_TERMINAL_WS_PORT)
ChildListens ==
    /\ childState = "up"
    /\ childState' = "listening"
    /\ listeners' = [i \in Services |-> listeners[i] \cup {ChildPid}]
    /\ UNCHANGED <<spc, spref, ssvc, soff, sports, serr, webPkg, children,
                   uncaught, browserTimer,
                   stubborn, tpc, tidx, allPids, treport, killed,
                   metaVars, portVars, supVars, cacheVars, enrichVars, fetchVars, webVars>>

\* a bundle is started and stopped; stop is given the ports of the bundle
LifeNext ==
    \/ StartNext
    \/ StopNext
    \/ ChildListens

-----------------------------------------------------------------------------
(* Claims about the start command and DashboardManager *)

\* C17 (StartSpec): when the spawned child fails to start, no exception is
\* thrown out of an event callback and the start command is rejected
C17_SpawnFailureReported ==
    childState = "error" => (~uncaught /\ spc = "failed")

\* the ports claimed by the services before service i
ClaimedBefore(i) == {sports[j] : j \in 1..Min({i - 1, Len(sports)})}

\* every candidate of service i is bound by the OS or claimed by a service
\* before it
SvcExhausted(i) ==
    \A o \in 0..(maxAttempts - 1) :
        LET port == SvcPreferred(i, spref) + o
        IN  port \in osBound \/ port \in ClaimedBefore(i)

\* the findNextAvailable call for service i has ended
ScanDone(i) ==
    /\ spc # "idle"
    /\ ssvc > i \/ (ssvc = i /\ spc # "probing")

\* C18 (StartSpec): when the allocation for a service has run out of
\* candidates the start command is rejected with the port error at that
\* service, no child has been spawned and no timer armed, and nothing
\* happens after
C18_FailsFastOnExhaustion ==
    /\ [](\A i \in Services :
             (ScanDone(i) /\ SvcExhausted(i))
                 => /\ spc = "failed" /\ serr = "noPort" /\ ssvc = i
                    /\ Len(sports) = i - 1)
    /\ [](serr = "noPort"
             => /\ spc = "failed"
                /\ children = <<>> /\ childState = "none" /\ ~browserTimer
                /\ webPkg = "unknown")
    /\ [][serr = "noPort" => UNCHANGED <<startVars, allocatedPorts>>]_vars

\* the dashboard got its port and the terminal server found none
C18_Witness ==
    /\ spc = "failed" /\ serr = "noPort"
    /\ ssvc = 2 /\ Len(sports) = 1

\* the entries of children for command cmd
SpawnCount(cmd) == Cardinality({i \in 1..Len(children) : children[i] = cmd})

\* C19 (StartSpec): the package check comes before the spawn.  A missing
\* package makes start fail with the error that names it, and nothing is
\* spawned; a present one makes start return having spawned the one
\* `pnpm run dev` child, and no second one follows
C19_ValidatesBeforeSpawn ==
    /\ [](webPkg = "missing"
             => /\ spc = "failed" /\ serr = "noPackage"
                /\ children = <<>> /\ childState = "none" /\ ~browserTimer)
    /\ [](webPkg = "present"
             => /\ spc = "started" /\ serr = "none"
                /\ children # <<>> /\ children[1] = "pnpm"
                /\ SpawnCount("pnpm") = 1)
    /\ [](webPkg = "unknown" => children = <<>>)
    /\ [][webPkg = "unknown" /\ webPkg' = "present"
             => children' = <<"pnpm">>]_vars

\* all three ports were allocated and the package was missing
C19_Witness ==
    /\ webPkg = "missing" /\ spc = "failed"
    /\ Len(sports) = 3

\* no process listens on any port of the bundle
NoListener == Listening = {}

\* C20 (StopSpec): while the bundle is stopped, a stop call that starts, or
\* one that has found no pid so far, goes through the ports without running
\* `kill` and without raising, and returns after the last port reporting
\* that nothing is running
C20_StopIdempotent ==
    [][(/\ NoListener
        /\ tpc = "idle" \/ (tpc = "lsof" /\ allPids = <<>>))
          => /\ killed' = killed
             /\ allPids' = <<>>
             /\ tpc' \in {"idle", "lsof"}
             /\ treport' # treport => treport' = Append(treport, "notRunning")
             /\ (tpc = "lsof" /\ tidx = 3)
                    => (tpc' = "idle" /\ treport' # treport)]_vars

\* two stop calls in a row on a bundle that was stopped from the start
C20_Witness ==
    /\ treport = <<"notRunning", "notRunning">>
    /\ killed = <<>>
    /\ tpc = "idle"

\* C21 as stated (StopSpec): once a stop call has completed, no process is
\* listening on a port of the bundle, also when a listener ignores SIGTERM
C21_NoListenerAfterStop ==
    (tpc = "idle" /\ treport # <<>>) => NoListener

\* the occurrences of pid in a list of pids
Occurrences(pid, seq) == Cardinality({i \in 1..Len(seq) : seq[i] = pid})

\* C22 (StopSpec): the list a stop call gives to `kill` holds every pid that
\* its lsof lookups printed, each of them once
C22_EachFoundPidOnce ==
    [][killed' # killed =>
          LET target == killed'[Len(killed')]
          IN  /\ Len(killed') = Len(killed) + 1
              /\ Range(target) = Range(allPids')
              /\ \A pid \in Range(allPids') : Occurrences(pid, target) = 1]_vars

\* one process found on all three ports and another on one of them
C22_Witness ==
    /\ tpc = "killing"
    /\ Len(allPids) = 4
    /\ Len(killed[Len(killed)]) = 2

\* C23 as stated (LifeSpec): once a stop call on a started bundle has stopped
\* its processes, no port of the bundle is claimed in the registry that
\* allocated it
C23_PortsReleasedAfterStop ==
    (/\ spc = "started"
     /\ tpc = "idle" /\ treport # <<>>
     /\ treport[Len(treport)] = "stopped")
        => Range(sports) \cap allocatedPorts = {}

\* C36 (StartSpec): the ports allocateServicePorts has allocated on its new
\* registry are pairwise distinct, each is claimed, free at the OS and in
\* the window of ten ports of its service, for every preferred dashboard
\* port, those in the windows of the two other services included; and on a
\* host with every port free the call returns its three ports
C36_ThreeDistinctPorts ==
    /\ Len(sports) <= 3
    /\ Cardinality(Range(sports)) = Len(sports)
    /\ Range(sports) = allocatedPorts
    /\ \A i \in 1..Len(sports) :
          /\ sports[i] \notin osBound
          /\ sports[i] - SvcPreferred(i, spref) \in 0..(maxAttempts - 1)
    /\ (osBound = {} /\ spc \in {"started", "failed"})
          => Len(sports) = 3 /\ serr # "noPort"

\* the preferred dashboard port is 3003, the preferred port of the direct
\* terminal server, which got 3004
C36_Witness ==
    /\ spc = "started"
    /\ spref = DirectTerminalWsPreferred
    /\ sports = <<3003, 3001, 3004>>
    /\ allocatedPorts = {3001, 3003, 3004}

\* C37 (StartSpec): a start command that failed has left no port claimed in
\* the registry it created
C37_FailedStartClaimsNothing ==
    spc = "failed" => allocatedPorts = {}

-----------------------------------------------------------------------------
(* TTLCache *)

DEFAULT_TTL_MS == 60000

\* new TTLCache(): the default argument
ttlMs == DEFAULT_TTL_MS

CKeys == {"pr1", "pr2"}

\* the amounts of time that pass between two cache operations
Steps == {1000, 15000, 45000}

\* new Map()
EmptyCache == [k \in {} |-> 0]

\* Map.set(key, entry)
MapSet(c, k, e) == [x \in DOMAIN c \cup {k} |-> IF x = k THEN e ELSE c[x]]

\* Map.delete for every key in ks
MapDelete(c, ks) == [x \in DOMAIN c \ ks |-> c[x]]

\* Map.get(key): <<>> for undefined
MapGet(c, k) == IF k \in DOMAIN c THEN <<c[k]>> ELSE <<>>

\* an entry that expires as soon as its time to live is reached
ExpiredAtTtl(e, t) == t >= e.expiresAt

\* now > entry.expiresAt
Expired(e, t) == t > e.expiresAt

\* a stale flag raised at 75% of the time to live
IsStaleAtThreshold(ageMs) == 4 * ageMs >= 3 * ttlMs

\* ageMs > this.ttlMs * 0.75; the product is exact for the ttl used
IsStale(ageMs) == 4 * ageMs > 3 * ttlMs

\* the CachedValue built by getWithMetadata
Metadata(e, t) ==
    [value |-> e.value,
     cachedAt |-> e.cachedAt,
     ageMs |-> t - e.cachedAt,
     ttlMs |-> ttlMs,
     stale |-> IsStale(t - e.cachedAt)]

\* what getWithMetadata(k) returns at time t on table c: <<>> is null
MetadataResult(c, k, t) ==
    IF k \notin DOMAIN c THEN <<>>
    ELSE IF Expired(c[k], t) THEN <<>>
    ELSE <<Metadata(c[k], t)>>

\* a read that leaves an expired entry in the table
MetadataTableKeep(c, k, t) == c

\* a read that writes the entry it returns again, as set would
MetadataTableTouch(c, k, t) ==
    IF k \notin DOMAIN c THEN c
    ELSE IF Expired(c[k], t) THEN MapDelete(c, {k})
    ELSE MapSet(c, k, [value |-> c[k].value, cachedAt |-> t,
                       expiresAt |-> t + ttlMs])

\* the table after getWithMetadata(k) at time t: an expired entry is deleted
MetadataTable(c, k, t) ==
    IF k \in DOMAIN c /\ Expired(c[k], t) THEN MapDelete(c, {k}) ELSE c

\* the entry that set(key, value) writes at time t
Entry(value, t) == [value |-> value, cachedAt |-> t, expiresAt |-> t + ttlMs]

\* a constructed cache: empty, the sweep timer armed for one ttl from now
CacheInit ==
    /\ now = 0
    /\ cache = EmptyCache
    /\ cleanupOn = TRUE
    /\ nextSweep = ttlMs
    /\ cop = "new"
    /\ ckey = "pr1"
    /\ centry = <<>>
    /\ cres = <<>>
    /\ nset = 0
    /\ nadv = 0

\* set(k, value); the values set are numbered so that they differ
CacheSet(k) ==
    /\ nset < NumSets
    /\ nset' = nset + 1
    /\ cache' = MapSet(cache, k, Entry(nset + 1, now))
    /\ cop' = "set"
    /\ ckey' = k
    /\ cres' = <<>>
    /\ UNCHANGED <<now, cleanupOn, nextSweep, centry, nadv,
                   metaVars, portVars, supVars, startVars, stopVars, enrichVars, fetchVars, webVars>>

\* getWithMetadata(k)
CacheGetWithMetadata(k) ==
    /\ cop' = "getWithMetadata"
    /\ ckey' = k
    /\ centry' = MapGet(cache, k)
    /\ cres' = MetadataResult(cache, k, now)
    /\ cache' = MetadataTable(cache, k, now)
    /\ UNCHANGED <<now, cleanupOn, nextSweep, nset, nadv,
                   metaVars, portVars, supVars, startVars, stopVars, enrichVars, fetchVars, webVars>>

\* get(k): the value of what getWithMetadata(k) returns, or null
CacheGet(k) ==
    /\ cop' = "get"
    /\ ckey' = k
    /\ centry' = MapGet(cache, k)
    /\ LET cached == MetadataResult(cache, k, now)
       IN  cres' = IF cached # <<>> THEN <<cached[1].value>> ELSE <<>>
    /\ cache' = MetadataTable(cache, k, now)
    /\ UNCHANGED <<now, cleanupOn, nextSweep, nset, nadv,
                   metaVars, portVars, supVars, startVars, stopVars, enrichVars, fetchVars, webVars>>

\* the callback of the cleanup interval runs, evictExpired(): every expired
\* entry is deleted; the timer is due again one ttl later
Sweep ==
    /\ cleanupOn
    /\ now >= nextSweep
    /\ cache' = MapDelete(cache, {k \in DOMAIN cache : Expired(cache[k], now)})
    /\ nextSweep' = now + ttlMs
    /\ cop' = "sweep"
    /\ UNCHANGED <<now, cleanupOn, ckey, centry, cres, nset, nadv,
                   metaVars, portVars, supVars, startVars, stopVars, enrichVars, fetchVars, webVars>>

\* clear(): the table is emptied and the cleanup interval is cleared
CacheClear ==
    /\ cache' = EmptyCache
    /\ cleanupOn' = FALSE
    /\ cop' = "clear"
    /\ UNCHANGED <<now, nextSweep, ckey, centry, cres, nset, nadv,
                   metaVars, portVars, supVars, startVars, stopVars, enrichVars, fetchVars, webVars>>

\* time passes; a sweep that is due runs before more time passes
Advance(d) ==
    /\ nadv < MaxAdvances
    /\ ~(cleanupOn /\ now >= nextSweep)
    /\ now' = now + d
    /\ nadv' = nadv + 1
    /\ cop' = "tick"
    /\ UNCHANGED <<cache, cleanupOn, nextSweep, ckey, centry, cres, nset,
                   metaVars, portVars, supVars, startVars, stopVars, enrichVars, fetchVars, webVars>>

CacheNext ==
    \/ \E k \in CKeys : CacheSet(k)
    \/ \E k \in CKeys : CacheGetWithMetadata(k)
    \/ \E k \in CKeys : CacheGet(k)
    \/ Sweep
    \/ CacheClear
    \/ \E d \in Steps : Advance(d)

-----------------------------------------------------------------------------
(* Claims about TTLCache *)

\* the last thing that ran is a read of key k
ReadOf(k) == cop \in {"get", "getWithMetadata"} /\ ckey = k

\* C24 (CacheSpec): a get or getWithMetadata of a key whose entry is older
\* than the ttl returns null and deletes the entry, and no read returns a
\* value from an entry older than the ttl
C24_ExpiredNeverReturned ==
    /\ [][\A k \in CKeys :
            (/\ ReadOf(k)'
             /\ k \in DOMAIN cache
             /\ now - cache[k].cachedAt > ttlMs)
                => /\ cres' = <<>>
                   /\ k \notin DOMAIN cache'
                   /\ MapDelete(cache', {k}) = MapDelete(cache, {k})]_vars
    /\ [](\A k \in CKeys :
            (ReadOf(k) /\ cres # <<>>)
                => /\ centry # <<>>
                   /\ now - centry[1].cachedAt <= ttlMs
                   /\ k \in DOMAIN cache)

\* an entry read 61000 ms after it was set: null, and the entry is gone
C24_Witness ==
    /\ cop = "getWithMetadata"
    /\ centry # <<>>
    /\ now - centry[1].cachedAt = 61000
    /\ cres = <<>>
    /\ ckey \notin DOMAIN cache

\* C25 (CacheSpec): what getWithMetadata returns has the value and the
\* cachedAt of the entry under its key, which a set writes with the time of
\* the call; ageMs is the time since then and at most the ttl; stale is
\* true exactly when ageMs is more than three quarters of the ttl
C25_AgeAndStaleness ==
    /\ []((cop = "getWithMetadata" /\ cres # <<>>)
            => LET r == cres[1]
               IN  /\ centry = <<cache[ckey]>>
                   /\ r.value = cache[ckey].value
                   /\ r.cachedAt = cache[ckey].cachedAt
                   /\ r.ageMs = now - cache[ckey].cachedAt
                   /\ 0 <= r.ageMs /\ r.ageMs <= ttlMs
                   /\ r.ttlMs = DEFAULT_TTL_MS
                   /\ r.stale = (r.ageMs * 100 > 75 * DEFAULT_TTL_MS)
                   /\ r.ageMs = 46000 => r.stale
                   /\ r.ageMs = 45000 => ~r.stale)
    /\ [][cop' = "set"
            => /\ cache'[ckey'] = [value |-> nset', cachedAt |-> now,
                                   expiresAt |-> now + DEFAULT_TTL_MS]
               /\ MapDelete(cache', {ckey'}) = MapDelete(cache, {ckey'})]_vars
    /\ [][cop' \notin {"set", "new"}
            => \A k \in DOMAIN cache' :
                  k \in DOMAIN cache /\ cache'[k] = cache[k]]_vars

\* an entry read 45000 ms after it was set
C25_Witness ==
    /\ cop = "getWithMetadata"
    /\ cres # <<>>
    /\ cres[1].ageMs = 45000
    /\ ~cres[1].stale

\* C26 as stated (CacheSpec): an entry that has expired is in the table only
\* while the cleanup interval is active, so that a sweep will remove it
C26_ExpiredEntryAwaitsSweep ==
    \A k \in DOMAIN cache :
        now > cache[k].expiresAt => cleanupOn

\* C38 (CacheSpec): a get or getWithMetadata of a key whose entry is no
\* older than the ttl returns it and leaves the table as it is; every entry
\* expires one ttl after it was written; an entry of the table changes only
\* by a set of its key, and a set writes an entry of age 0
C38_ReadsDoNotRefresh ==
    /\ [][\A k \in CKeys :
            (/\ ReadOf(k)'
             /\ k \in DOMAIN cache
             /\ now - cache[k].cachedAt <= ttlMs)
                => cache' = cache /\ cres' # <<>>]_vars
    /\ [](\A k \in DOMAIN cache :
            /\ cache[k].expiresAt = cache[k].cachedAt + DEFAULT_TTL_MS
            /\ cache[k].cachedAt <= now)
    /\ [][\A k \in DOMAIN cache \cap DOMAIN cache' :
            cache'[k] # cache[k] => (cop' = "set" /\ ckey' = k)]_vars
    /\ [][cop' = "set"
            => /\ cache'[ckey'].cachedAt = now'
               /\ MetadataResult(cache', ckey', now')[1].ageMs = 0]_vars

\* the second value set, written at 15000, read 45000 ms later: its entry
\* still has the times of the set
C38_Witness ==
    /\ cop = "getWithMetadata"
    /\ cres # <<>>
    /\ cres[1].value = 2
    /\ cres[1].ageMs = 45000
    /\ cache[ckey] = [value |-> 2, cachedAt |-> 15000, expiresAt |-> 75000]

-----------------------------------------------------------------------------
(* PR enrichment: the fan-out of enrichSessionPR *)

NumSubFetches == 6

\* getPRSummary, getCIChecks, getCISummary, getReviewDecision,
\* getMergeability, getPendingComments
SubFetches == 1..NumSubFetches

\* the fields of PREnrichmentData that the result of sub-fetch i fills
FieldsOf(i) ==
    CASE i = 1 -> {"state", "title", "additions", "deletions"}
      [] i = 2 -> {"ciChecks"}
      [] i = 3 -> {"ciStatus"}
      [] i = 4 -> {"reviewDecision"}
      [] i = 5 -> {"mergeability"}
      [] i = 6 -> {"unresolvedThreads", "unresolvedComments"}

RateLimitBlocker == "API rate limited or unavailable"

\* the sub-fetches of a settled fan-out with outcome o
WithOutcome(results, o) == {i \in SubFetches : results[i] = o}

\* the calls that were rejected: with a RateLimitError of the plugin
\* ("quota") or with any other error ("failed")
Rejected(results) ==
    WithOutcome(results, "failed") \cup WithOutcome(results, "quota")

\* a fan-out given up at its first failure: only the results before it
AppliedUntilFailure(results) ==
    {i \in SubFetches : \A j \in 1..i : results[j] = "ok"}

\* the results applied to the output: every fulfilled one
Applied(results) == WithOutcome(results, "ok")

\* a mark raised only when more than half of the calls failed
IsRateLimitedMajority(failed, total) == 2 * failed > total

\* at least 50% of the calls failed
IsRateLimited(failed, total) == 2 * failed >= total

\* the successful results are applied one after the other, in the order of
\* the calls, to an output that starts empty: field -> the call it is from
RECURSIVE ApplyFrom(_, _, _)
ApplyFrom(i, applied, out) ==
    IF i > NumSubFetches THEN out
    ELSE ApplyFrom(i + 1, applied,
             IF i \in applied
               THEN [f \in DOMAIN out \cup FieldsOf(i) |->
                        IF f \in FieldsOf(i) THEN i ELSE out[f]]
               ELSE out)

\* what enrichSessionPR makes of a settled fan-out: the partial data, the
\* rate limit mark, and the blocker that goes with the mark
Enriched(results) ==
    LET limited == IsRateLimited(Cardinality(Rejected(results)),
                                 NumSubFetches)
    IN  [fields |-> ApplyFrom(1, Applied(results), EmptyCache),
         rateLimited |-> limited,
         blockers |-> IF limited THEN {RateLimitBlocker} ELSE {}]

EnrichInit ==
    /\ epc = "idle"
    /\ eresults = [i \in SubFetches |-> "pending"]
    /\ eorder = <<>>
    /\ eout = <<>>

\* enrichSessionPR is called: the six calls are made and it suspends in
\* Promise.allSettled
EnrichCall ==
    /\ epc = "idle"
    /\ epc' = "settling"
    /\ UNCHANGED <<eresults, eorder, eout,
                   metaVars, portVars, supVars, startVars, stopVars,
                   cacheVars, fetchVars, webVars>>

\* sub-fetch i settles, fulfilled or rejected; when it is the last one
\* Promise.allSettled resolves and enrichSessionPR builds its output
SubFetchSettle(i, outcome) ==
    /\ epc = "settling"
    /\ eresults[i] = "pending"
    /\ LET results == [eresults EXCEPT ![i] = outcome]
       IN  /\ eresults' = results
           /\ eorder' = Append(eorder, i)
           /\ IF WithOutcome(results, "pending") = {}
                THEN /\ epc' = "done"
                     /\ eout' = <<Enriched(results)>>
                ELSE UNCHANGED <<epc, eout>>
    /\ UNCHANGED <<metaVars, portVars, supVars, startVars, stopVars,
                   cacheVars, fetchVars, webVars>>

EnrichNext ==
    \/ EnrichCall
    \/ \E i \in SubFetches, o \in {"ok", "failed"} : SubFetchSettle(i, o)

-----------------------------------------------------------------------------
(* Claims about the fan-out *)

FailedCount == Cardinality(WithOutcome(eresults, "failed"))

\* C27 (EnrichSpec): the output of a fan-out of six is marked rate limited,
\* and has the blocker, exactly when three or more of the calls failed
C27_MarkedAtHalfFailed ==
    epc = "done"
        => /\ eout # <<>>
           /\ eout[1].rateLimited = (FailedCount >= 3)
           /\ eout[1].rateLimited = (FailedCount * 2 >= Len(eorder))
           /\ (RateLimitBlocker \in eout[1].blockers) = eout[1].rateLimited

\* three of six failed: marked, with the three successful results
C27_Witness ==
    /\ epc = "done"
    /\ FailedCount = 3
    /\ eout[1].rateLimited
    /\ Cardinality({eout[1].fields[f] : f \in DOMAIN eout[1].fields}) = 3

\* C30 (EnrichSpec): whatever the order in which the calls settled, the
\* output is built when all six have settled and holds the fields of the
\* successful calls, each from its own call, and no other field
C30_MergeOrderIndependent ==
    /\ epc = "done" <=> Len(eorder) = NumSubFetches
    /\ epc = "done" <=> eout # <<>>
    /\ epc = "done"
          => LET out == eout[1].fields
             IN  /\ DOMAIN out =
                       UNION {FieldsOf(i) : i \in WithOutcome(eresults, "ok")}
                 /\ \A i \in WithOutcome(eresults, "ok") :
                       \A f \in FieldsOf(i) : out[f] = i
                 /\ \A i \in SubFetches : eresults[i] \in {"ok", "failed"}

\* the calls settled in reverse order, the first to settle failed, and the
\* results of the five others are in the output
C30_Witness ==
    /\ epc = "done"
    /\ eorder = <<6, 5, 4, 3, 2, 1>>
    /\ WithOutcome(eresults, "failed") = {6}
    /\ Cardinality(DOMAIN eout[1].fields) = 8

-----------------------------------------------------------------------------
(* RateLimitError *)

Resources == {"graphql", "rest", "core"}

\* resetAt as given to the constructor, in ms after the constructor's
\* Date.now(): in the past, now, within a second, 30 s, 10 min, 17 min
ResetOffsets ==
    {-300000, -1000, -1, 0, 1, 999, 1000, 1500, 30000, 600000, 1020000}

\* a duration kept as it is, negative or not
NotFloored(seconds) == seconds

\* a duration floored at zero
FlooredAtZero(seconds) == IF seconds < 0 THEN 0 ELSE seconds

\* the values retryAfter can have for a resetAt and a Date.now(): the
\* seconds between them as an integer, rounded down or up, floored at zero
RetryAfterValues(resetAt, t) ==
    LET ms == resetAt - t
    IN  {FlooredAtZero(ms \div 1000), FlooredAtZero(-((-ms) \div 1000))}

\* the errors new RateLimitError(resource, resetAt) can be at time t
RateLimitErrors(resource, resetAt, t) ==
    {[code |-> "RATE_LIMIT_EXCEEDED", resource |-> resource,
      resetAt |-> resetAt, retryAfter |-> r] :
        r \in RetryAfterValues(resetAt, t)}

\* new RateLimitError(resource, resetAt)
ConstructRateLimitError(resource, resetAt) ==
    /\ \E e \in RateLimitErrors(resource, resetAt, now) : rlerr' = <<e>>
    /\ rlat' = now
    /\ UNCHANGED <<titleVars, routeVars,
                   metaVars, portVars, supVars, startVars, stopVars,
                   cacheVars, enrichVars, fetchVars>>

\* errors constructed as time passes
RateNext ==
    \/ \E res \in Resources, off \in ResetOffsets :
          ConstructRateLimitError(res, now + off)
    \/ \E d \in Steps : Advance(d)
    \/ Sweep

-----------------------------------------------------------------------------
(* Claims about RateLimitError *)

\* C32 (RateSpec): retryAfter of a RateLimitError is the seconds from its
\* construction to resetAt as an integer that is never negative: 0 when
\* resetAt is at or before the construction time, 600 for ten minutes
\* later, 30 for thirty seconds later, the exact number for any whole
\* number of seconds, and less than a second off otherwise
C32_RetryAfterWholeSeconds ==
    rlerr # <<>>
        => LET e == rlerr[1]
               ms == e.resetAt - rlat
           IN  /\ e.retryAfter \in Nat
               /\ ms <= 0 => e.retryAfter = 0
               /\ ms = 600000 => e.retryAfter = 600
               /\ ms = 30000 => e.retryAfter = 30
               /\ (ms > 0 /\ ms % 1000 = 0) => 1000 * e.retryAfter = ms
               /\ ms > 0 => 1000 * e.retryAfter - ms \in -999..999

\* an error constructed 46 s into the run for a quota that reset five
\* minutes before
C32_Witness ==
    /\ rlerr # <<>>
    /\ rlat = 46000
    /\ rlerr[1].resetAt = rlat - 300000
    /\ rlerr[1].retryAfter = 0

-----------------------------------------------------------------------------
(* PR enrichment: the cached fetch, getOrFetch *)

FetchCalls == 1..NumFetchCalls

\* the settled fan-out in which the first n calls failed
FirstFailed(n) == [i \in SubFetches |-> IF i <= n THEN "failed" ELSE "ok"]

\* the fan-outs considered for a fetch: no call failed, or half of them
OutcomeSamples == {FirstFailed(n) : n \in {0, NumSubFetches \div 2}}

\* the fan-outs in which one call was rejected with a RateLimitError: it
\* alone, or with two other calls rejected too
QuotaSamples ==
    {[FirstFailed(n) EXCEPT ![NumSubFetches] = "quota"] : n \in {0, 2}}

\* when the quota of a rejected call resets, in ms after the rejection
QuotaResets == {1020000}

\* a fetch whose result is cached only when no call failed
ShouldStoreIfComplete(results) == WithOutcome(results, "failed") = {}

\* the result of a fetch is cached, partial or not
ShouldStore(results) == TRUE

\* what getOrFetch returns on a hit: the cached value with its age and
\* staleness
FromCache(cached) ==
    [value |-> cached.value, cacheAge |-> cached.ageMs,
     stale |-> cached.stale, fromCache |-> TRUE]

\* what getOrFetch returns after a fetch
Fetched(value) ==
    [value |-> value, cacheAge |-> 0, stale |-> FALSE, fromCache |-> FALSE]

FetchInit ==
    /\ gpc = [c \in FetchCalls |-> "idle"]
    /\ gkey = [c \in FetchCalls |-> "pr1"]
    /\ gret = [c \in FetchCalls |-> <<>>]
    /\ nfetch = 0
    /\ gerr = [c \in FetchCalls |-> <<>>]
    /\ quotaKeys = {}

\* getOrFetch(k) is called: it reads the cache with getWithMetadata and
\* returns on a hit; on a miss it starts the fetch and suspends
GetOrFetchCall(c, k) ==
    /\ gpc[c] = "idle"
    /\ \A b \in FetchCalls : b < c => gpc[b] # "idle"
    /\ gkey' = [gkey EXCEPT ![c] = k]
    /\ cop' = "getWithMetadata"
    /\ ckey' = k
    /\ centry' = MapGet(cache, k)
    /\ cres' = MetadataResult(cache, k, now)
    /\ cache' = MetadataTable(cache, k, now)
    /\ LET cached == MetadataResult(cache, k, now)
       IN  IF cached # <<>>
             THEN /\ gpc' = [gpc EXCEPT ![c] = "done"]
                  /\ gret' = [gret EXCEPT ![c] = <<FromCache(cached[1])>>]
                  /\ UNCHANGED nfetch
             ELSE /\ gpc' = [gpc EXCEPT ![c] = "fetching"]
                  /\ nfetch' = nfetch + 1
                  /\ UNCHANGED gret
    /\ UNCHANGED <<now, cleanupOn, nextSweep, nset, nadv, gerr, quotaKeys,
                   metaVars, portVars, supVars, startVars, stopVars,
                   enrichVars, webVars>>

\* the fan-out of a fetch has settled: the output is built and written to
\* the cache under the key; it is returned, unless a call was rejected with
\* a RateLimitError, which is then thrown to the caller
FetchReturn(c, results) ==
    /\ gpc[c] = "fetching"
    /\ LET value == Enriched(results)
           quota == WithOutcome(results, "quota") # {}
       IN  /\ cache' = IF ShouldStore(results)
                         THEN MapSet(cache, gkey[c], Entry(value, now))
                         ELSE cache
           /\ quotaKeys' = IF ~ShouldStore(results) THEN quotaKeys
                           ELSE IF quota THEN quotaKeys \cup {gkey[c]}
                           ELSE quotaKeys \ {gkey[c]}
           /\ IF quota
                THEN /\ \E off \in QuotaResets :
                          \E e \in RateLimitErrors("graphql", now + off, now) :
                             gerr' = [gerr EXCEPT ![c] = <<e>>]
                     /\ UNCHANGED gret
                ELSE /\ gret' = [gret EXCEPT ![c] = <<Fetched(value)>>]
                     /\ UNCHANGED gerr
    /\ gpc' = [gpc EXCEPT ![c] = "done"]
    /\ cop' = "set"
    /\ ckey' = gkey[c]
    /\ cres' = <<>>
    /\ UNCHANGED <<now, cleanupOn, nextSweep, centry, nset, nadv, gkey, nfetch,
                   metaVars, portVars, supVars, startVars, stopVars,
                   enrichVars, webVars>>

\* callers of getOrFetch on one cache, its sweep, and time passing
FetchNext ==
    \/ \E c \in FetchCalls, k \in CKeys : GetOrFetchCall(c, k)
    \/ \E c \in FetchCalls, r \in OutcomeSamples : FetchReturn(c, r)
    \/ Sweep
    \/ \E d \in Steps : Advance(d)

\* the same, with fetches in which the upstream reports an exhausted quota
QuotaNext ==
    \/ \E c \in FetchCalls, k \in CKeys : GetOrFetchCall(c, k)
    \/ \E c \in FetchCalls, r \in OutcomeSamples \cup QuotaSamples :
          FetchReturn(c, r)
    \/ Sweep
    \/ \E d \in Steps : Advance(d)

-----------------------------------------------------------------------------
(* Claims about getOrFetch *)

\* this step is the call of getOrFetch number c, with key k
CallStep(c, k) == gpc[c] = "idle" /\ gpc'[c] # "idle" /\ gkey'[c] = k

\* key k has an entry that is not older than the ttl
Fresh(k) == k \in DOMAIN cache /\ now - cache[k].cachedAt <= DEFAULT_TTL_MS

\* C28 (FetchSpec): a getOrFetch call on a key with an entry no older than
\* the ttl returns the cached value with its age and staleness, starts no
\* fetch and leaves the table as it is; on any other key it starts a fetch
C28_CacheConsultedFirst ==
    [][\A c \in FetchCalls, k \in CKeys :
          CallStep(c, k) =>
             IF Fresh(k)
               THEN LET age == now - cache[k].cachedAt
                    IN  /\ nfetch' = nfetch
                        /\ cache' = cache
                        /\ gpc'[c] = "done"
                        /\ gret'[c] = <<[value |-> cache[k].value,
                                         cacheAge |-> age,
                                         stale |-> 4 * age > 3 * DEFAULT_TTL_MS,
                                         fromCache |-> TRUE]>>
               ELSE /\ nfetch' = nfetch + 1
                    /\ gpc'[c] = "fetching"
                    /\ gret'[c] = <<>>]_vars

\* the second call was served from an entry 46000 ms old
C28_Witness ==
    /\ gpc[2] = "done"
    /\ gret[2] # <<>>
    /\ gret[2][1].fromCache
    /\ gret[2][1].cacheAge = 46000
    /\ gret[2][1].stale
    /\ nfetch = 1

\* C29 (FetchSpec): a fetch that returns has written what it returns under
\* its key, to expire one ttl later, also when calls of its fan-out failed;
\* an entry stays in the table, or is replaced by one written now, as long
\* as it is no older than the ttl; and a call for a key with such an entry
\* starts no fetch
C29_FetchedResultIsCached ==
    /\ [][\A c \in FetchCalls :
             (gpc[c] = "fetching" /\ gpc'[c] = "done")
                => /\ gret'[c] # <<>>
                   /\ gkey[c] \in DOMAIN cache'
                   /\ cache'[gkey[c]] =
                         [value |-> gret'[c][1].value,
                          cachedAt |-> now,
                          expiresAt |-> now + DEFAULT_TTL_MS]]_vars
    /\ [][\A k \in DOMAIN cache :
             now' - cache[k].cachedAt <= DEFAULT_TTL_MS
                => /\ k \in DOMAIN cache'
                   /\ cache'[k] = cache[k] \/ cache'[k].cachedAt = now']_vars
    /\ [][\A c \in FetchCalls :
             (/\ gpc[c] = "idle" /\ gpc'[c] # "idle"
              /\ gkey'[c] \in DOMAIN cache
              /\ now - cache[gkey'[c]].cachedAt <= DEFAULT_TTL_MS)
                => nfetch' = nfetch /\ gret'[c][1].fromCache]_vars

\* a fetch with failed calls was marked rate limited and cached, and the
\* next call for the key was served from the cache a ttl later
C29_Witness ==
    /\ gpc[1] = "done" /\ gpc[2] = "done"
    /\ gkey[1] = gkey[2]
    /\ ~gret[1][1].fromCache /\ gret[1][1].value.rateLimited
    /\ gret[2][1].fromCache /\ gret[2][1].value = gret[1][1].value
    /\ gret[2][1].cacheAge = DEFAULT_TTL_MS

\* C31 (QuotaSpec): a getOrFetch call whose fetch had a call rejected for
\* an exhausted quota ends with a RateLimitError or with a result marked
\* rate limited, and so does a later call served from the entry it stored
C31_QuotaNeverCleanSuccess ==
    [][\A c \in FetchCalls :
          /\ (gpc[c] = "fetching" /\ gpc'[c] = "done" /\ gkey[c] \in quotaKeys')
                => \/ gerr'[c] # <<>>
                   \/ gret'[c] # <<>> /\ gret'[c][1].value.rateLimited
          /\ (gpc[c] = "idle" /\ gpc'[c] = "done" /\ gkey'[c] \in quotaKeys)
                => \/ gerr'[c] # <<>>
                   \/ gret'[c] # <<>> /\ gret'[c][1].value.rateLimited]_vars

-----------------------------------------------------------------------------
(* Session titles: lib/format.ts *)

\* A string is the sequence of its characters. A field that can be null
\* is <<>> when it is null and <<s>> when it is the string s.

StartsWith(s, p) == Len(s) >= Len(p) /\ SubSeq(s, 1, Len(p)) = p

Includes(s, p) ==
    \E i \in 1..(Len(s) - Len(p) + 1) : SubSeq(s, i, i + Len(p) - 1) = p

\* JavaScript truthiness of a string field: neither null nor ""
Truthy(f) == f # <<>> /\ f[1] # <<>>

\* the prefixes humanizeBranch removes, each with its "/"
BranchPrefixes ==
    {<<"f", "e", "a", "t", "/">>,
     <<"f", "i", "x", "/">>,
     <<"c", "h", "o", "r", "e", "/">>,
     <<"r", "e", "f", "a", "c", "t", "o", "r", "/">>,
     <<"d", "o", "c", "s", "/">>,
     <<"t", "e", "s", "t", "/">>,
     <<"c", "i", "/">>,
     <<"s", "e", "s", "s", "i", "o", "n", "/">>,
     <<"r", "e", "l", "e", "a", "s", "e", "/">>,
     <<"h", "o", "t", "f", "i", "x", "/">>,
     <<"f", "e", "a", "t", "u", "r", "e", "/">>,
     <<"b", "u", "g", "f", "i", "x", "/">>,
     <<"b", "u", "i", "l", "d", "/">>,
     <<"w", "i", "p", "/">>,
     <<"i", "m", "p", "r", "o", "v", "e", "m", "e", "n", "t", "/">>}

humanizeBranch(branch) ==
    LET lower == <<"a", "b", "c", "d", "e", "f", "g", "h", "i", "j", "k", "l",
                   "m", "n", "o", "p", "q", "r", "s", "t", "u", "v", "w", "x",
                   "y", "z">>
        upper == <<"A", "B", "C", "D", "E", "F", "G", "H", "I", "J", "K", "L",
                   "M", "N", "O", "P", "Q", "R", "S", "T", "U", "V", "W", "X",
                   "Y", "Z">>
        digits == {"0", "1", "2", "3", "4", "5", "6", "7", "8", "9"}
        \* c.toUpperCase() of one character
        ToUpperCase(c) ==
            IF \E i \in 1..26 : lower[i] = c
              THEN upper[CHOOSE i \in 1..26 : lower[i] = c]
              ELSE c
        \* \w of a regular expression
        IsWordChar(c) ==
            \/ \E i \in 1..26 : lower[i] = c \/ upper[i] = c
            \/ c \in digits
            \/ c = "_"
        \* branch.replace(/^(?:feat|fix|...)\//, "")
        withoutPrefix ==
            IF \E p \in BranchPrefixes : StartsWith(branch, p)
              THEN LET p == CHOOSE q \in BranchPrefixes : StartsWith(branch, q)
                   IN  SubSeq(branch, Len(p) + 1, Len(branch))
              ELSE branch
        \* .replace(/[-_]/g, " ")
        spaced ==
            [i \in 1..Len(withoutPrefix) |->
                IF withoutPrefix[i] \in {"-", "_"} THEN " "
                ELSE withoutPrefix[i]]
        \* .replace(/\b\w/g, (c) => c.toUpperCase())
        titled ==
            [i \in 1..Len(spaced) |->
                IF IsWordChar(spaced[i]) /\ (i = 1 \/ ~IsWordChar(spaced[i - 1]))
                  THEN ToUpperCase(spaced[i])
                  ELSE spaced[i]]
        \* .trim()
        inked == {i \in 1..Len(titled) : titled[i] # " "}
    IN  IF inked = {} THEN <<>>
        ELSE SubSeq(titled, CHOOSE i \in inked : \A j \in inked : i <= j,
                            CHOOSE i \in inked : \A j \in inked : i >= j)

\* what a prompt excerpt starts with: "You are working on",
\* "You are an AI coding agent", "Work on "
PromptStarts ==
    {<<"Y", "o", "u", " ", "a", "r", "e", " ", "w", "o", "r", "k", "i", "n",
        "g", " ", "o", "n">>,
     <<"Y", "o", "u", " ", "a", "r", "e", " ", "a", "n", " ", "A", "I", " ",
         "c", "o", "d", "i", "n", "g", " ", "a", "g", "e", "n", "t">>,
     <<"W", "o", "r", "k", " ", "o", "n", " ">>}

\* what a prompt excerpt includes: "Issue URL:",
\* "Please implement the changes", "## Session Lifecycle"
PromptParts ==
    {<<"I", "s", "s", "u", "e", " ", "U", "R", "L", ":">>,
     <<"P", "l", "e", "a", "s", "e", " ", "i", "m", "p", "l", "e", "m", "e",
         "n", "t", " ", "t", "h", "e", " ", "c", "h", "a", "n", "g", "e",
             "s">>,
     <<"#", "#", " ", "S", "e", "s", "s", "i", "o", "n", " ", "L", "i", "f",
         "e", "c", "y", "c", "l", "e">>}

\* a summary taken for a real one, whatever it says
looksLikeNoExcerpt(summary) == FALSE

looksLikePromptExcerpt(summary) ==
    \/ \E p \in PromptStarts : StartsWith(summary, p)
    \/ \E p \in PromptParts : Includes(summary, p)

getSessionTitle(session) ==
    IF session.pr # <<>> /\ session.pr[1].title # <<>>
      THEN session.pr[1].title
    ELSE IF /\ Truthy(session.summary)
            /\ ~looksLikePromptExcerpt(session.summary[1])
      THEN session.summary[1]
    ELSE IF Truthy(session.issueTitle) THEN session.issueTitle[1]
    ELSE IF Truthy(session.summary) THEN session.summary[1]
    ELSE IF Truthy(session.branch) THEN humanizeBranch(session.branch[1])
    ELSE session.status

\* summaries an agent wrote: "Fixed auth", and "Working on it", which only
\* begins like "Work on "
QualitySummaries ==
    {<<"F", "i", "x", "e", "d", " ", "a", "u", "t", "h">>,
     <<"W", "o", "r", "k", "i", "n", "g", " ", "o", "n", " ", "i", "t">>}

\* summaries cut from the spawn prompt, one per marker:
\* "You are working on #42", "You are an AI coding agent", "Work on it",
\* "See Issue URL:", "Please implement the changes.",
\* "ao ## Session Lifecycle"
ExcerptSummaries ==
    {<<"Y", "o", "u", " ", "a", "r", "e", " ", "w", "o", "r", "k", "i", "n",
        "g", " ", "o", "n", " ", "#", "4", "2">>,
     <<"Y", "o", "u", " ", "a", "r", "e", " ", "a", "n", " ", "A", "I", " ",
         "c", "o", "d", "i", "n", "g", " ", "a", "g", "e", "n", "t">>,
     <<"W", "o", "r", "k", " ", "o", "n", " ", "i", "t">>,
     <<"S", "e", "e", " ", "I", "s", "s", "u", "e", " ", "U", "R", "L", ":">>,
     <<"P", "l", "e", "a", "s", "e", " ", "i", "m", "p", "l", "e", "m", "e",
         "n", "t", " ", "t", "h", "e", " ", "c", "h", "a", "n", "g", "e",
             "s", ".">>,
     <<"a", "o", " ", "#", "#", " ", "S", "e", "s", "s", "i", "o", "n", " ",
         "L", "i", "f", "e", "c", "y", "c", "l", "e">>}

\* the sessions rendered: pr null or with an empty or a real title; summary
\* and issueTitle null, "" or a text; branch null, "", with a known prefix,
\* with an unknown one, with none, or nothing but a separator
Sessions ==
    [pr : {<<>>, <<[title |-> <<>>]>>,
           <<[title |-> <<"f", "e", "a", "t", ":", " ", "a", "d", "d", " ",
               "a", "u", "t", "h">>]>>},
     summary : {<<>>, <<<<>>>>}
                  \cup {<<s>> : s \in QualitySummaries \cup ExcerptSummaries},
     issueTitle : {<<>>, <<<<>>>>, <<<<"A", "d", "d", " ", "l", "o", "g",
         "i", "n">>>>},
     branch : {<<>>, <<<<>>>>,
               <<<<"f", "e", "a", "t", "/", "i", "n", "f", "e", "r", "-",
                   "p", "r", "o", "j", "e", "c", "t", "-", "i", "d">>>>,
               <<<<"s", "e", "s", "s", "i", "o", "n", "/", "a", "o", "-",
                   "5", "2">>>>,
               <<<<"c", "u", "s", "t", "o", "m", "/", "m", "y", "-", "b",
                   "r", "a", "n", "c", "h">>>>,
               <<<<"r", "e", "l", "e", "a", "s", "e", "/", "v", "2", ".",
                   "1", ".", "0">>>>,
               <<<<"f", "e", "a", "t", "u", "r", "e", "/", "a", "d", "d",
                   "_", "n", "e", "w">>>>,
               <<<<"m", "a", "i", "n">>>>,
               <<<<"_">>>>},
     status : {<<"w", "o", "r", "k", "i", "n", "g">>}]

\* a session card is rendered: getSessionTitle(session)
RenderTitle(session) ==
    /\ tsession' = <<session>>
    /\ ttitle' = <<getSessionTitle(session)>>
    /\ UNCHANGED <<rateVars, routeVars,
                   metaVars, portVars, supVars, startVars, stopVars,
                   cacheVars, enrichVars, fetchVars>>

TitleNext == \E session \in Sessions : RenderTitle(session)

-----------------------------------------------------------------------------
(* Claims about session titles *)

\* the first of a sequence of nullable strings that is neither null nor ""
RECURSIVE FirstAvailable(_)
FirstAvailable(candidates) ==
    IF Truthy(Head(candidates)) THEN Head(candidates)[1]
    ELSE FirstAvailable(Tail(candidates))

-----------------------------------------------------------------------------
(* POST /api/sessions/:id/message: app/api/sessions/[id]/message/route.ts *)

\* the control characters, in caret notation: BEL, ESC, LF, TAB, DEL
ControlChars == {"^G", "^[", "^J", "^I", "^?"}

\* a sanitizer that lets every character through
KeepControlChars(str) == str

\* stripControlChars(str): the string without its control characters
StripControlChars(str) == SelectSeq(str, LAMBDA c : c \notin ControlChars)

\* message.trim().length === 0
TrimsToEmpty(str) == \A i \in 1..Len(str) : str[i] \in {" ", "^J", "^I"}

\* NextResponse.json(body, { status })
Response(status, body) == [status |-> status, body |-> body]

RouteInit ==
    /\ rpc = "idle"
    /\ rbody = <<>>
    /\ rmsg = <<>>
    /\ rsvc = <<>>
    /\ rsession = <<>>
    /\ rsent = <<>>
    /\ rresp = <<>>

\* POST is called: params resolves and it suspends in request.json()
PostCall ==
    /\ rpc = "idle"
    /\ rpc' = "json"
    /\ UNCHANGED <<rbody, rmsg, rsvc, rsession, rsent, rresp,
                   rateVars, titleVars,
                   metaVars, portVars, supVars, startVars, stopVars,
                   cacheVars, enrichVars, fetchVars>>

\* request.json() settles: it rejects for a body that is no JSON, the
\* destructuring throws for null, and the message is validated otherwise;
\* a valid message leaves the handler suspended in getServices()
JsonReturn(body) ==
    /\ rpc = "json"
    /\ rbody' = <<body>>
    /\ IF body.json # "object"
         THEN /\ rpc' = "done"
              /\ rresp' = <<Response(500, "Internal server error")>>
              /\ UNCHANGED rmsg
       ELSE IF ~Truthy(body.message)
         THEN /\ rpc' = "done"
              /\ rresp' = <<Response(400, "Missing message")>>
              /\ UNCHANGED rmsg
       ELSE LET message == StripControlChars(body.message[1])
            IN  /\ rmsg' = <<message>>
                /\ IF TrimsToEmpty(message)
                     THEN /\ rpc' = "done"
                          /\ rresp' = <<Response(400,
                                 "Message must not be empty after sanitization")>>
                     ELSE /\ rpc' = "services"
                          /\ UNCHANGED rresp
    /\ UNCHANGED <<rsvc, rsession, rsent,
                   rateVars, titleVars,
                   metaVars, portVars, supVars, startVars, stopVars,
                   cacheVars, enrichVars, fetchVars>>

\* getServices() settles, with the services or rejected (svc = <<>>); the
\* handler then suspends in sessionManager.get(id)
ServicesReturn(svc) ==
    /\ rpc = "services"
    /\ rsvc' = svc
    /\ IF svc = <<>>
         THEN /\ rpc' = "done"
              /\ rresp' = <<Response(500, "Internal server error")>>
         ELSE /\ rpc' = "get"
              /\ UNCHANGED rresp
    /\ UNCHANGED <<rbody, rmsg, rsession, rsent,
                   rateVars, titleVars,
                   metaVars, portVars, supVars, startVars, stopVars,
                   cacheVars, enrichVars, fetchVars>>

\* project.runtime ?? config.defaults?.runtime, <<>> when undefined
RuntimeName(project, defaults) ==
    IF project.runtime # <<>> THEN project.runtime
    ELSE IF defaults = <<>> THEN <<>>
    ELSE defaults[1].runtime

\* sessionManager.get(id) settles, rejected (found = "throws") or with the
\* session or null; the session, its project and its runtime are checked,
\* and runtime.sendMessage is called
SessionReturn(found, session) ==
    /\ rpc = "get"
    /\ found = "throws" => session = <<>>
    /\ rsession' = session
    /\ LET config == rsvc[1]
           runtimeName == RuntimeName(config.project[1], config.defaults)
           failure ==
               IF found = "throws"
                 THEN <<Response(500, "Internal server error")>>
               ELSE IF session = <<>>
                 THEN <<Response(404, "Session not found")>>
               ELSE IF session[1].runtimeHandle = <<>>
                 THEN <<Response(400, "Session has no runtime handle")>>
               ELSE IF config.project = <<>>
                 THEN <<Response(404, "Project not found")>>
               ELSE IF runtimeName = <<>> \/ runtimeName[1] = ""
                 THEN <<Response(500, "Project has no runtime configured")>>
               ELSE IF runtimeName[1] \notin config.plugins
                 THEN <<Response(500, "Runtime plugin not found")>>
               ELSE <<>>
       IN  IF failure # <<>>
             THEN /\ rpc' = "done"
                  /\ rresp' = failure
                  /\ UNCHANGED rsent
             ELSE /\ rpc' = "sending"
                  /\ rsent' = Append(rsent,
                                [handle |-> session[1].runtimeHandle[1],
                                 message |-> rmsg[1]])
                  /\ UNCHANGED rresp
    /\ UNCHANGED <<rbody, rmsg, rsvc,
                   rateVars, titleVars,
                   metaVars, portVars, supVars, startVars, stopVars,
                   cacheVars, enrichVars, fetchVars>>

\* runtime.sendMessage settles, fulfilled or rejected
SendReturn(ok) ==
    /\ rpc = "sending"
    /\ rpc' = "done"
    /\ rresp' = IF ok THEN <<Response(200, "success")>>
                ELSE <<Response(500, "Failed to send message")>>
    /\ UNCHANGED <<rbody, rmsg, rsvc, rsession, rsent,
                   rateVars, titleVars,
                   metaVars, portVars, supVars, startVars, stopVars,
                   cacheVars, enrichVars, fetchVars>>

\* one request, for any body, any configuration and any session: a message
\* that is missing, "", blank, only control characters, or a text with
\* control characters in it; a project that is missing or has a runtime,
\* "" or none; defaults that are missing or have a runtime or none
RouteNext ==
    \/ PostCall
    \/ \E json \in {"invalid", "null", "object"},
          message \in {<<>>, <<<<>>>>, <<<<" ">>>>, <<<<"^G", "^J">>>>,
                       <<<<"h", "i">>>>,
                       <<<<"^[", "l", "s", "^G", " ", "^J">>>>} :
          /\ json # "object" => message = <<>>
          /\ JsonReturn([json |-> json, message |-> message])
    \/ ServicesReturn(<<>>)
    \/ \E project \in {<<>>} \cup {<<[runtime |-> r]>> :
                                      r \in {<<>>, <<"">>, <<"tmux">>}},
          defaults \in {<<>>} \cup {<<[runtime |-> r]>> :
                                       r \in {<<>>, <<"tmux">>}},
          plugins \in SUBSET {"tmux"} :
          ServicesReturn(<<[project |-> project, defaults |-> defaults,
                            plugins |-> plugins]>>)
    \/ SessionReturn("throws", <<>>)
    \/ \E session \in {<<>>} \cup {<<[runtimeHandle |-> h]>> :
                                      h \in {<<>>, <<"tmux-1">>}} :
          SessionReturn("returns", session)
    \/ \E ok \in BOOLEAN : SendReturn(ok)

-----------------------------------------------------------------------------
(* Claims about the message route *)

\* the response the checks of the claim give, in their order, for a request
\* whose awaits all resolved: <<>> when every check passed
RECURSIVE FirstFailing(_)
FirstFailing(checks) ==
    IF checks = <<>> THEN <<>>
    ELSE IF ~Head(checks)[1] THEN <<Head(checks)[2]>>
    ELSE FirstFailing(Tail(checks))

\* C34 (RouteSpec): sendMessage is called at most once for a request, with
\* the message without its control characters, and only when the message is
\* there, is not blank once sanitized, the session is found and has a
\* runtime handle, its project is found, a runtime name is resolved and its
\* plugin is found; a request that fails a check ends with the status of
\* the first check it fails, 400, 400, 404, 400, 404, 500, 500 in this
\* order, and one whose await is rejected, sendMessage included, with 500;
\* a request that is over has its response
C34_SendOnlyAfterChecks ==
    LET present == rbody # <<>> /\ rbody[1].json = "object"
                     /\ Truthy(rbody[1].message)
        raw == rbody[1].message[1]
        clean == /\ \A i \in 1..Len(rmsg[1]) : rmsg[1][i] \notin ControlChars
                 /\ rmsg[1] = SelectSeq(raw, LAMBDA c : c \notin ControlChars)
        blank == \A i \in 1..Len(rmsg[1]) : rmsg[1][i] = " "
        config == rsvc[1]
        named == /\ config.project # <<>>
                 /\ \/ config.project[1].runtime = <<"tmux">>
                    \/ /\ config.project[1].runtime = <<>>
                       /\ config.defaults # <<>>
                       /\ config.defaults[1].runtime = <<"tmux">>
        checks ==
            <<<<present, 400>>,
              <<present => ~blank, 400>>,
              <<rsession # <<>>, 404>>,
              <<rsession # <<>> => rsession[1].runtimeHandle # <<>>, 400>>,
              <<rsvc # <<>> => config.project # <<>>, 404>>,
              <<rsvc # <<>> => named, 500>>,
              <<rsvc # <<>> => "tmux" \in config.plugins, 500>>>>
    IN  /\ Len(rsent) <= 1
        /\ rsent # <<>>
             => /\ present /\ clean /\ ~blank
                /\ rsent[1].message = rmsg[1]
                /\ rsession # <<>> /\ rsession[1].runtimeHandle # <<>>
                /\ rsent[1].handle = rsession[1].runtimeHandle[1]
                /\ named /\ "tmux" \in config.plugins
                /\ FirstFailing(checks) = <<>>
        /\ rsent # <<>> <=> rpc = "sending" \/ (rpc = "done" /\ rresp[1].body
                                \in {"success", "Failed to send message"})
        /\ rpc = "done" <=> rresp # <<>>
        /\ rpc = "done"
             => IF rresp[1].body = "Internal server error"
                  THEN rresp[1].status = 500 /\ rsent = <<>>
                ELSE IF rsent # <<>>
                  THEN rresp[1].status \in {200, 500}
                ELSE /\ FirstFailing(checks) # <<>>
                     /\ rresp[1].status = FirstFailing(checks)[1]

\* a message of control characters around "ls" was sent as "ls " once, and
\* sendMessage threw: the request ended with 500
C34_Witness ==
    /\ rpc = "done"
    /\ rbody[1].message = <<<<"^[", "l", "s", "^G", " ", "^J">>>>
    /\ Len(rsent) = 1
    /\ rsent[1].message = <<"l", "s", " ">>
    /\ rresp[1] = Response(500, "Failed to send message")

-----------------------------------------------------------------------------
(* Specifications *)

\* no kill call, the process already gone
SupIdle ==
    /\ proc = "exited"
    /\ pexit = -1
    /\ kpc = "idle"
    /\ clock = 0
    /\ timerOn = FALSE
    /\ intervalOn = FALSE
    /\ klog = <<>>

\* no stop call, no listener on the bundle
StopIdle ==
    /\ listeners = [i \in Services |-> {}]
    /\ stubborn = {}
    /\ tpc = "idle"
    /\ tidx = 1
    /\ allPids = <<>>
    /\ treport = <<>>
    /\ killed = <<>>

\* no error constructed, no title computed, no request
WebInit ==
    /\ rlerr = <<>>
    /\ rlat = 0
    /\ tsession = <<>>
    /\ ttitle = <<>>
    /\ RouteInit

\* the metadata service alone
MetaInit0 ==
    /\ MetaInit /\ PortStart({}) /\ SupIdle /\ StartInit /\ StopIdle
    /\ CacheInit /\ EnrichInit /\ FetchInit /\ WebInit

\* the registry alone, on any of the OS states
PortInit ==
    /\ MetaInit /\ SupIdle /\ StartInit /\ StopIdle
    /\ CacheInit /\ EnrichInit /\ FetchInit /\ WebInit
    /\ \E os \in OsConfigs : PortStart(os)

\* one kill call on one process
SupInit0 ==
    /\ MetaInit /\ PortStart({}) /\ SupInit /\ StartInit /\ StopIdle
    /\ CacheInit /\ EnrichInit /\ FetchInit /\ WebInit

\* one run of the start command, on any of the OS states
StartInit0 ==
    /\ MetaInit /\ SupIdle /\ StartInit /\ StopIdle
    /\ CacheInit /\ EnrichInit /\ FetchInit /\ WebInit
    /\ \E os \in OsConfigs : PortStart(os)

\* stop calls on a bundle with any listeners
StopInit0 ==
    /\ MetaInit /\ PortStart({}) /\ SupIdle /\ StartInit /\ StopInit
    /\ CacheInit /\ EnrichInit /\ FetchInit /\ WebInit

MetaSpec == MetaInit0 /\ [][MetaNext]_vars

PortSpec == PortInit /\ [][PortNext]_vars

PortSeqSpec == PortInit /\ [][PortSeqNext]_vars

SupSpec == SupInit0 /\ [][SupNext]_vars

\* the event loop runs every timer callback that is due
SupFairSpec == SupSpec /\ WF_vars(PollTick) /\ WF_vars(TimerFire)

StartSpec == StartInit0 /\ [][StartNext]_vars

StopSpec == StopInit0 /\ [][StopNext]_vars

\* one start command on a host with every port free, and stop calls
LifeInit0 ==
    /\ MetaInit /\ PortStart({}) /\ SupIdle /\ StartInit /\ StopIdle
    /\ CacheInit /\ EnrichInit /\ FetchInit /\ WebInit

\* one cache, used by callers and swept by its timer
CacheInit0 ==
    /\ MetaInit /\ PortStart({}) /\ SupIdle /\ StartInit /\ StopIdle
    /\ CacheInit /\ EnrichInit /\ FetchInit /\ WebInit

LifeSpec == LifeInit0 /\ [][LifeNext]_vars

CacheSpec == CacheInit0 /\ [][CacheNext]_vars

\* one fan-out of enrichSessionPR
EnrichSpec == CacheInit0 /\ [][EnrichNext]_vars

\* getOrFetch calls on one cache
FetchSpec == CacheInit0 /\ [][FetchNext]_vars

\* getOrFetch calls against an upstream that can report an exhausted quota
QuotaSpec == CacheInit0 /\ [][QuotaNext]_vars

\* RateLimitError objects constructed at any time
RateSpec == CacheInit0 /\ [][RateNext]_vars

\* session cards rendered for any sessions
TitleSpec == CacheInit0 /\ [][TitleNext]_vars

\* one request to the message route
RouteSpec == CacheInit0 /\ [][RouteNext]_vars

====
